---- MODULE Spec2Model ----
(***************************************************************************)
(* A model of the CGRAOmp kernel-extraction pipeline: memory-access        *)
(* decoupling, address-generator verification, the decoupled kernel        *)
(* verifier, the data-flow-graph container and builder, and the            *)
(* instruction map of the CGRA model.                                      *)
(*                                                                         *)
(* IR values are strings.  The instructions of a loop body are named       *)
(* InstNames[1], InstNames[2], ... in program order; the other values are  *)
(*   "p"      a pointer defined outside the loop, affine in the loop       *)
(*   "q"      a pointer defined outside the loop whose scalar evolution    *)
(*            has a non-constant step                                      *)
(*   "pp"     a pointer to a pointer                                       *)
(*   "sched"  a pointer recorded in the OpenMP ScheduleInfo                *)
(*   "inv"    an instruction outside the loop (a loop invariant)           *)
(*   "cst"    a Constant                                                   *)
(*   "cast"   a trunc/bitcast whose operand 0 is "castsrc"                 *)
(*   "castsrc" a value defined outside the loop                            *)
(*   "iv"     an instruction of the loop body that no load feeds (the      *)
(*            induction phi)                                               *)
(*   "fn"     the callee of a custom-instruction call                      *)
(* The builds modelled are those in which assert() is compiled in (the     *)
(* graph builder performs its connect() calls inside assert()).            *)
(***************************************************************************)
EXTENDS Integers, Sequences, FiniteSets, TLC

\* ------------------------------------------------------------------ bounds
\* instructions in the loop kernels of one function, all loops together
MaxInst == 3
\* loop kernels of one function
MaxLoops == 2
\* nodes offered to a graph that is driven through its interface
MaxNodes == 3
\* edges of such a graph
MaxEdges == 3
\* AddRec levels of the address of a memory access verified on its own
MaxNestDepth == 3
\* memory accesses of a kernel verified on its own
MaxAccesses == 2
\* entries created in an instruction map that is driven through its interface
MaxEntries == 3
\* plugin libraries named by load-dfg-pass-plugin
MaxPlugins == 2
\* pass names given by dfg-pass-pipeline
MaxPassNames == 2

InstNames == <<"i1", "i2", "i3", "i4", "i5", "i6">>

NoValue == "none"

\* characters of a key=value option argument
MaxArgLen == 4

\* trip count of a loop of a three-level nest
MaxTripCount == 4

\* incoming values of a phi
MaxIncoming == 3

\* instructions of a loop body searched step by step
MaxFloodInst == 4

\* upper 32 bits of the address of an IR value
MaxHighWord == 1

\* ------------------------------------------------------------ the IR input
NameOf(j) == InstNames[j]

IndexOf(v) == CHOOSE j \in 1..Len(InstNames) : InstNames[j] = v

IsInst(body, v) == \E j \in 1..Len(body) : NameOf(j) = v

InstOf(body, v) == body[IndexOf(v)]

InstSet(body) == { NameOf(j) : j \in 1..Len(body) }

\* a load of a pointer-to-pointer, or a pointer computation
IsPtrInst(ins) == (ins.kind = "load" /\ ins.ptr) \/ ins.kind = "gep"

LowerPtr(body) == { NameOf(j) : j \in { k \in 1..Len(body) : IsPtrInst(body[k]) } }

LowerInt(body) == { NameOf(j) : j \in { k \in 1..Len(body) : ~IsPtrInst(body[k]) /\ body[k].kind # "store" } }

MkInst(kind, ops, ptr) == [kind |-> kind, ops |-> ops, ptr |-> ptr]

\* the instructions that may follow the instructions of body (operands are
\* defined before their uses; operand 0 of a load, operand 1 of a store and
\* operand 0 of a gep are pointers; the last operand of a call is the callee)
InstChoices(body) ==
    { MkInst("load", <<a>>, FALSE) : a \in {"p", "q", "sched"} \cup LowerPtr(body) }
    \cup { MkInst("load", <<a>>, TRUE) : a \in {"pp"} \cup LowerPtr(body) }
    \cup { MkInst("store", <<v, a>>, FALSE) :
              v \in LowerInt(body) \cup {"inv", "cst"}, a \in {"p", "q"} \cup LowerPtr(body) }
    \cup { MkInst("add", <<a, b>>, FALSE) :
              a \in LowerInt(body) \cup {"inv"},
              b \in LowerInt(body) \cup {"inv", "cst", "cast", "iv"} }
    \cup { MkInst("call", <<a, "cst", "cst", "fn">>, FALSE) : a \in LowerInt(body) \cup {"inv"} }
    \cup { MkInst("gep", <<"p", x>>, FALSE) : x \in LowerInt(body) }

\* ----------------------------------------------- llvm::Value classification
IsLoadInst(body, v) == IsInst(body, v) /\ InstOf(body, v).kind = "load"

IsStoreInst(body, v) == IsInst(body, v) /\ InstOf(body, v).kind = "store"

IsCallInst(body, v) == IsInst(body, v) /\ InstOf(body, v).kind = "call"

IsConstant(v) == v = "cst"

IsSkippedCast(v) == v = "cast"

CastOperand(v) == "castsrc"

\* Value::users(): the instructions that have v as an operand
Users(body, v) == { NameOf(j) : j \in { k \in 1..Len(body) : \E i \in 1..Len(body[k].ops) : body[k].ops[i] = v } }

\* ScheduleInfo::contains
SIContains(v) == v = "sched"

\* DecoupledAnalysisPass::isPointerValue
isPointerValue(ins) == ins.ptr

\* the instructions of the innermost loop's blocks
kernel_nodes(body) == InstSet(body) \cup {"iv"}

\* ----------------------------------------------------- DecoupledAnalysisPass
mem_load(body) ==
    { v \in InstSet(body) : InstOf(body, v).kind = "load"
                            /\ ~SIContains(InstOf(body, v).ops[1])
                            /\ ~isPointerValue(InstOf(body, v)) }

mem_store(body) == { v \in InstSet(body) : InstOf(body, v).kind = "store" }

\* a set as a sequence, in program order
RECURSIVE SeqOfSet(_)
SeqOfSet(S) ==
    IF S = {} THEN <<>>
    ELSE LET m == CHOOSE x \in S : \A y \in S : IndexOf(x) <= IndexOf(y)
         IN <<m>> \o SeqOfSet(S \ {m})

\* the search, failing only for a load that is not one of the memory loads
RECURSIVE FloodNonSeedOnly(_, _, _)
FloodNonSeedOnly(body, fifo, traversed) ==
    IF fifo = <<>> THEN [err |-> FALSE, traversed |-> traversed]
    ELSE LET v == Head(fifo) IN
         IF v \in mem_store(body) THEN FloodNonSeedOnly(body, Tail(fifo), traversed)
         ELSE IF \E suc \in Users(body, v) : IsLoadInst(body, suc) /\ suc \notin mem_load(body)
              THEN [err |-> TRUE, traversed |-> traversed]
              ELSE LET new == Users(body, v) \ traversed
                   IN FloodNonSeedOnly(body, Tail(fifo) \o SeqOfSet(new), traversed \cup new)

\* the breadth-first search from the memory loads: fifo and traversed as in
\* the code; the result is the traversed set, or the error of reaching a load
RECURSIVE Flood(_, _, _)
Flood(body, fifo, traversed) ==
    IF fifo = <<>> THEN [err |-> FALSE, traversed |-> traversed]
    ELSE LET v == Head(fifo) IN
         IF v \in mem_store(body) THEN Flood(body, Tail(fifo), traversed)
         ELSE IF \E suc \in Users(body, v) : IsLoadInst(body, suc)
              THEN [err |-> TRUE, traversed |-> traversed]
              ELSE LET new == Users(body, v) \ traversed
                   IN Flood(body, Tail(fifo) \o SeqOfSet(new), traversed \cup new)

\* the number of data operands tracked for a user
TrackedOperands(body, user) ==
    IF IsStoreInst(body, user) \/ IsCallInst(body, user)
    THEN Len(InstOf(body, user).ops) - 1
    ELSE Len(InstOf(body, user).ops)

\* the source found behind a chain of trunc/bitcast
SkipLast(operand) == IF IsSkippedCast(operand) THEN CastOperand(operand) ELSE operand

SkipHist(operand) == IF IsSkippedCast(operand) THEN <<operand>> ELSE <<>>

\* the operands of the users in comp that are first looked at
FirstLooked(body, comp) ==
    UNION { { InstOf(body, u).ops[i] : i \in 1..TrackedOperands(body, u) } : u \in comp }

DAError(cause) ==
    [err |-> TRUE, cause |-> cause, loads |-> {}, stores |-> {}, comp |-> {},
     invars |-> {}, skip |-> {}]

Decouple(body) ==
    LET fl == Flood(body, SeqOfSet(mem_load(body)), {})
        reached == fl.traversed \cap mem_store(body)
        comp == fl.traversed \ mem_store(body)
        first == { o \in FirstLooked(body, comp) : o \notin comp /\ o \notin mem_load(body) }
        consts == { o \in first : IsConstant(o) }
        others == { o \in first : ~IsConstant(o) /\ SkipLast(o) \notin kernel_nodes(body) }
    IN IF fl.err THEN DAError("Loop dependent mem loads are included")
       ELSE IF Cardinality(reached) < Cardinality(mem_store(body))
            THEN DAError("Unreachable store exists")
            ELSE [err |-> FALSE, cause |-> "",
                  loads |-> mem_load(body), stores |-> mem_store(body), comp |-> comp,
                  invars |-> consts \cup { SkipLast(o) : o \in others },
                  skip |-> { <<SkipLast(o), SkipHist(o)>> : o \in { x \in others : SkipHist(x) # <<>> } }]

\* ------------------------------------------------------------------ CGRADFG
\* A graph is [nodes, edges]: the node list and the edges in insertion
\* order.  A node object is identified by its val (the IR value it was made
\* for); an edge names its source and target node objects.
VROOT_NODE_ID == -1

DFGNode(val, ID, kind, op) == [val |-> val, ID |-> ID, kind |-> kind, op |-> op]

VirtualRootNode == DFGNode("vroot", VROOT_NODE_ID, "VirtualRoot", "")

DFGEdge(src, dst, operand) == [src |-> src, dst |-> dst, operand |-> operand, kind |-> "Normal"]

\* DirectedGraph(): no node at all
EmptyGraph == [nodes |-> <<>>, edges |-> <<>>]

Range(s) == { s[i] : i \in 1..Len(s) }

RECURSIVE SelectIdx(_, _, _)
SelectIdx(s, keep, i) ==
    IF i > Len(s) THEN <<>>
    ELSE (IF i \in keep THEN <<s[i]>> ELSE <<>>) \o SelectIdx(s, keep, i + 1)

\* DFGNode::isEqualTo: nodes are compared by ID
isEqualTo(N, M) == N.ID = M.ID

NodeVals(g) == { n.val : n \in Range(g.nodes) }

NodeAt(g, v) == CHOOSE n \in Range(g.nodes) : n.val = v

\* DirectedGraph::findNode
findNode(g, N) == \E V \in Range(g.nodes) : isEqualTo(V, N)

\* DirectedGraph::addNode
BaseAddNode(g, N) == IF findNode(g, N) THEN g ELSE [g EXCEPT !.nodes = Append(@, N)]

\* DirectedGraph::connect: the edge is appended to the source's edge list
BaseConnect(g, E) == [g EXCEPT !.edges = Append(@, E)]

\* DGNode::findEdgesTo: the positions of the edges of src whose target
\* compares equal to Dst
findEdgesTo(g, src, Dst) ==
    { i \in 1..Len(g.edges) : g.edges[i].src = src /\ isEqualTo(NodeAt(g, g.edges[i].dst), Dst) }

\* DGNode::removeEdge, for a set of edge positions
removeEdges(g, idx) == [g EXCEPT !.edges = SelectIdx(@, (1..Len(@)) \ idx, 1)]

getRoot == VirtualRootNode

\* CGRADFG::createVirtualRoot
createVirtualRoot(g) == BaseAddNode(g, VirtualRootNode)

\* CGRADFG::addNode: the node it returns ...
AddNodeResult(g, N) ==
    IF findNode(g, N)
    THEN g.nodes[CHOOSE i \in 1..Len(g.nodes) :
                    /\ isEqualTo(g.nodes[i], N)
                    /\ \A j \in 1..(i - 1) : ~isEqualTo(g.nodes[j], N)].val
    ELSE N.val

\* ... and the graph it leaves
addNode(g, N) ==
    IF findNode(g, N) THEN g
    ELSE BaseConnect(BaseAddNode(g, N), DFGEdge(getRoot.val, N.val, 0))

\* the assert of CGRADFG::connect fails
connectAsserts(g, E) ==
    Cardinality(findEdgesTo(BaseConnect(g, E), getRoot.val, NodeAt(g, E.dst))) > 1

\* CGRADFG::connect: the edge is added, then the root's edge to Dst, if
\* there is one, is removed
connect(g, E) ==
    LET g1 == BaseConnect(g, E)
        vedges == findEdgesTo(g1, getRoot.val, NodeAt(g, E.dst))
    IN IF vedges = {} THEN g1
       ELSE removeEdges(g1, { CHOOSE i \in vedges : \A j \in vedges : i <= j })

\* CGRADFG(Function *F, Loop *L)
NewCGRADFG == createVirtualRoot(EmptyGraph)

\* CGRADFG(NodeType &N): DirectedGraph(N) adds N, then the root is created
\* and connected to N through CGRADFG::connect
NewCGRADFGWithNode(N) ==
    connect(createVirtualRoot(BaseAddNode(EmptyGraph, N)), DFGEdge(getRoot.val, N.val, 0))

\* the predecessors of node v other than the virtual root
NonRootPreds(g, v) == { e.src : e \in { x \in Range(g.edges) : x.dst = v /\ x.src # getRoot.val } }

HasRootEdge(g, v) == \E e \in Range(g.edges) : e.src = getRoot.val /\ e.dst = v

\* the targets of the edges of node n, in the order of its edge list
RECURSIVE Children(_, _, _)
Children(g, n, i) ==
    IF i > Len(g.edges) THEN <<>>
    ELSE (IF g.edges[i].src = n THEN <<g.edges[i].dst>> ELSE <<>>) \o Children(g, n, i + 1)

\* the nodes of targets not yet visited, each once, in order
RECURSIVE Discover(_, _)
Discover(targets, visited) ==
    IF targets = <<>> THEN <<>>
    ELSE IF Head(targets) \in visited THEN Discover(Tail(targets), visited)
    ELSE <<Head(targets)>> \o Discover(Tail(targets), visited \cup {Head(targets)})

\* breadth_first(this): the nodes in the order the iterator yields them,
\* queue being the nodes discovered whose children are still to be looked at
RECURSIVE breadth_first(_, _, _)
breadth_first(g, queue, order) ==
    IF queue = <<>> THEN order
    ELSE LET new == Discover(Children(g, Head(queue), 1), Range(order))
         IN breadth_first(g, Tail(queue) \o new, order \o new)

\* CGRADFG::makeSequentialNodeID
makeSequentialNodeID(g) ==
    LET order == breadth_first(g, <<getRoot.val>>, <<getRoot.val>>)
        count(v) == Cardinality({ j \in 1..Len(order) :
                                    /\ order[j] # getRoot.val
                                    /\ j < (CHOOSE k \in 1..Len(order) : order[k] = v) })
    IN [g EXCEPT !.nodes = [i \in 1..Len(g.nodes) |->
            IF g.nodes[i].val \in Range(order) /\ g.nodes[i].val # getRoot.val
            THEN [g.nodes[i] EXCEPT !.ID = count(g.nodes[i].val)]
            ELSE g.nodes[i]]]

\* ------------------------------------------------- scalar evolutions (SCEV)
\* A SCEV is [t, ops, n, v]: its type, its operands, the value of a
\* Constant or the trip count of the loop of an AddRec, the IR value of an
\* Unknown.  The operands of an AddRec are <<start, step>>.
SCEV(t, ops, n, v) == [t |-> t, ops |-> ops, n |-> n, v |-> v]

SCEVConstant(n) == SCEV("Constant", <<>>, n, NoValue)

SCEVUnknown(v) == SCEV("Unknown", <<>>, 0, v)

SCEVAddRec(start, step, count) == SCEV("AddRec", <<start, step>>, count, NoValue)

SCEVAdd(a, b) == SCEV("Add", <<a, b>>, 0, NoValue)

SCEVMul(a, b) == SCEV("Mul", <<a, b>>, 0, NoValue)

\* a SCEV of a type the verifier has no case for (a division, a maximum)
SCEVOther == SCEV("UDiv", <<>>, 0, NoValue)

\* the operands of an add expression, as parseStartSCEV folds them
RECURSIVE ParseOperands(_, _, _, _)
ParseOperands(ops, i, offset, base) ==
    IF i > Len(ops) THEN [ok |-> TRUE, offset |-> offset, base |-> base]
    ELSE IF ops[i].t = "Constant" THEN ParseOperands(ops, i + 1, offset + ops[i].n, base)
    ELSE IF ops[i].t = "Unknown"
         THEN IF base # NoValue THEN [ok |-> FALSE, offset |-> offset, base |-> base]
              ELSE ParseOperands(ops, i + 1, offset, ops[i].v)
         ELSE ParseOperands(ops, i + 1, offset, base)

parseStartSCEV(S) ==
    IF S.t = "Add"
    THEN IF Len(S.ops) <= 2 THEN ParseOperands(S.ops, 1, 0, NoValue)
         ELSE [ok |-> FALSE, offset |-> 0, base |-> NoValue]
    ELSE IF S.t = "Unknown" THEN [ok |-> TRUE, offset |-> 0, base |-> S.v]
         ELSE [ok |-> TRUE, offset |-> 0, base |-> NoValue]

\* the depth-first search of verifySCEVAsAffineAG: the stack grows at its
\* end; invalidate() clears the stack and sets valid to false
RECURSIVE SCEVWalk(_, _, _)
SCEVWalk(scev_stack, end_addrec, C) ==
    IF scev_stack = <<>> THEN C
    ELSE LET scev == scev_stack[Len(scev_stack)]
             rest == SubSeq(scev_stack, 1, Len(scev_stack) - 1)
         IN IF scev.t = "AddRec"
            THEN IF end_addrec
                 THEN SCEVWalk(<<>>, end_addrec, [C EXCEPT !.valid = FALSE])
                 ELSE LET start == scev.ops[1]
                          step == scev.ops[2]
                          isConst == step.t = "Constant"
                          ps == parseStartSCEV(start)
                          entry == [start |-> ps.offset,
                                    step |-> IF isConst THEN step.n ELSE 0,
                                    count |-> scev.n]
                      IN SCEVWalk(Append(IF isConst THEN rest ELSE <<>>, start),
                                  end_addrec,
                                  [valid |-> C.valid /\ isConst,
                                   config |-> <<entry>> \o C.config,
                                   base |-> IF ps.ok THEN ps.base ELSE C.base])
            ELSE IF scev.t \in {"Add", "Mul", "SignExtend", "Truncate", "ZeroExtend", "PtrToInt"}
                 THEN SCEVWalk(rest \o scev.ops, TRUE, C)
                 ELSE IF scev.t \in {"Constant", "Unknown"}
                      THEN SCEVWalk(rest, TRUE, C)
                      ELSE SCEVWalk(<<>>, end_addrec, [C EXCEPT !.valid = FALSE])

verifySCEVAsAffineAG(S) == SCEVWalk(<<S>>, FALSE, [valid |-> TRUE, config |-> <<>>, base |-> NoValue])

\* the number of AddRec levels of an address expression
RECURSIVE NestDepth(_)
NestDepth(S) == IF S.t = "AddRec" THEN 1 + NestDepth(S.ops[1]) ELSE 0

\* ------------------------------------------------------------------ InstMap
\* An IR instruction as the instruction map sees it: its opcode, its
\* operands (isConst: a ConstantInt of value n), the predicate of a compare,
\* its flags, and for a call the name of the called function and whether
\* that function carries the cgra_custom_inst annotation.
Operand(isConst, n) == [isConst |-> isConst, n |-> n]

Inst(opcode, ops, pred, flags, callee, annotated) ==
    [opcode |-> opcode, ops |-> ops, pred |-> pred, flags |-> flags,
     callee |-> callee, annotated |-> annotated]

BinaryOps == {"add"}

\* MapCondition(map)
MapCondition(map) ==
    [map_name |-> map, anyLHS |-> TRUE, anyRHS |-> TRUE, anyPred |-> TRUE,
     flag_list |-> {}, const_operand |-> 0, use_int |-> 0, cmp_pred |-> "none"]

\* MapCondition::setConst(int use, bool isLeft)
setConst(c, use, isLeft) ==
    [c EXCEPT !.const_operand = IF 0 # 0 THEN (IF isLeft THEN 1 ELSE 0) ELSE 1,
              !.use_int = use,
              !.anyLHS = IF isLeft THEN FALSE ELSE @,
              !.anyRHS = IF isLeft THEN @ ELSE FALSE]

\* MapCondition::setPred
setPred(c, pred) == [c EXCEPT !.anyPred = FALSE, !.cmp_pred = pred]

\* MapCondition::setFlags
setFlags(c, flags) == [c EXCEPT !.flag_list = flags]

\* the match_use closure installed by setConst (operands count from 0)
match_use(c, I) ==
    /\ c.const_operand < Len(I.ops)
    /\ I.ops[c.const_operand + 1].isConst
    /\ I.ops[c.const_operand + 1].n = c.use_int

\* MapCondition::match
MapConditionMatch(c, I) ==
    /\ \A flag \in c.flag_list : flag \in I.flags
    /\ (~c.anyLHS => match_use(c, I))
    /\ (~c.anyRHS => match_use(c, I))
    /\ (~c.anyPred => (I.opcode \in {"icmp", "fcmp"} /\ I.pred = c.cmp_pred))

\* a JSON value that may be missing from its object
Absent == [present |-> FALSE, value |-> 0]

Present(v) == [present |-> TRUE, value |-> v]

\* createMapCondition on a well-formed entry of instruction_map, json_obj
\* being [flags, pred, lhs, rhs] (pred "none": no pred key): the condition
\* made, and whether the warning about lhs and rhs was printed
createMapCondition(json_obj, OptVerbose) ==
    LET c0 == MapCondition("m")
        c1 == IF json_obj.flags # {} THEN setFlags(c0, json_obj.flags) ELSE c0
        c2 == IF json_obj.pred # "none" THEN setPred(c1, json_obj.pred) ELSE c1
        lhs_en == json_obj.lhs.present
        c3 == IF lhs_en THEN setConst(c2, json_obj.lhs.value, TRUE) ELSE c2
        c4 == IF json_obj.rhs.present /\ ~lhs_en THEN setConst(c3, json_obj.rhs.value, FALSE) ELSE c3
    IN [cond |-> c4, warned |-> json_obj.rhs.present /\ lhs_en /\ OptVerbose]

\* the entries the generators of entry_gen make; owns_cond tells the
\* constructor used: InstMapEntry(opcode) makes its own MapCondition(opcode),
\* InstMapEntry(opcode, cond) takes the one it is given
BinaryOpMapEntry(id, opcode, c) ==
    [id |-> id, opcode_str |-> opcode, cls |-> "BinaryOp", ops |-> opcode,
     isInteger |-> FALSE, kind |-> "none", map_cond |-> c, owns_cond |-> FALSE]

CompOpMapEntry(id, opcode, isInteger, c) ==
    [id |-> id, opcode_str |-> opcode, cls |-> "CompOp", ops |-> "none",
     isInteger |-> isInteger, kind |-> "none", map_cond |-> c, owns_cond |-> FALSE]

MemoryOpMapEntry(id, opcode, c) ==
    [id |-> id, opcode_str |-> opcode, cls |-> "MemoryOp", ops |-> "none",
     isInteger |-> FALSE, kind |-> opcode, map_cond |-> c, owns_cond |-> FALSE]

CustomInstMapEntry(id, opcode, c) ==
    [id |-> id, opcode_str |-> opcode, cls |-> "Custom", ops |-> "none",
     isInteger |-> FALSE, kind |-> "none", map_cond |-> c, owns_cond |-> FALSE]

\* the opcodes of the static table entry_gen
GenericOpcodes == {"add", "icmp", "fcmp", "load", "store"}

\* An instruction map is [entries, defaultEntries, custom_gen, next_id]:
\* entries in insertion order, defaultEntries as the set of its
\* <<opcode, entry id>> pairs (id 0 is nullptr), the opcodes whose generator
\* in the static table entry_gen was installed by add_custom_inst, and the
\* identity of the next entry object.
NewInstMap == [entries |-> <<>>, defaultEntries |-> {}, custom_gen |-> {}, next_id |-> 1]

\* entry_gen[opcode](c)
Generate(id, opcode, c, custom_gen) ==
    IF opcode \in custom_gen THEN CustomInstMapEntry(id, opcode, c)
    ELSE IF opcode \in BinaryOps THEN BinaryOpMapEntry(id, opcode, c)
    ELSE IF opcode = "icmp" THEN CompOpMapEntry(id, opcode, TRUE, c)
    ELSE IF opcode = "fcmp" THEN CompOpMapEntry(id, opcode, FALSE, c)
    ELSE IF opcode \in {"load", "store"} THEN MemoryOpMapEntry(id, opcode, c)
    ELSE CustomInstMapEntry(id, opcode, c)

BinaryOpMapEntryMatch(e, I) ==
    I.opcode \in BinaryOps /\ I.opcode = e.ops /\ MapConditionMatch(e.map_cond, I)

MemoryOpMapEntryMatch(e, I) ==
    IF I.opcode = "load" THEN e.kind = "load"
    ELSE IF I.opcode = "store" THEN e.kind = "store"
    ELSE FALSE

CompOpMapEntryMatch(e, I) ==
    IF I.opcode \in {"icmp", "fcmp"}
    THEN IF I.opcode = "icmp" /\ e.isInteger THEN MapConditionMatch(e.map_cond, I)
         ELSE IF I.opcode = "icmp" /\ ~e.isInteger THEN MapConditionMatch(e.map_cond, I)
         ELSE FALSE
    ELSE FALSE

CustomInstMapEntryMatch(e, I) ==
    IF I.opcode = "call" /\ I.callee = e.opcode_str
    THEN I.annotated /\ MapConditionMatch(e.map_cond, I)
    ELSE FALSE

\* InstMapEntry::match(Instruction *I), by the class of the entry
EntryMatch(e, I) ==
    IF e.cls = "BinaryOp" THEN BinaryOpMapEntryMatch(e, I)
    ELSE IF e.cls = "MemoryOp" THEN MemoryOpMapEntryMatch(e, I)
    ELSE IF e.cls = "CompOp" THEN CompOpMapEntryMatch(e, I)
    ELSE CustomInstMapEntryMatch(e, I)

\* InstMap::find(Instruction *I): the position of the entry returned, 0 for
\* nullptr
find(es, I) ==
    IF \E i \in 1..Len(es) : EntryMatch(es[i], I)
    THEN CHOOSE i \in 1..Len(es) : EntryMatch(es[i], I) /\ \A j \in 1..(i - 1) : ~EntryMatch(es[j], I)
    ELSE 0

\* entry_gen[opcode](nullptr)
GenerateDefault(id, opcode, custom_gen) ==
    [Generate(id, opcode, MapCondition(opcode), custom_gen) EXCEPT !.owns_cond = TRUE]

\* defaultEntries.find(opcode) != defaultEntries.end()
HasDefault(im, opcode) == \E d \in im.defaultEntries : d[1] = opcode

\* defaultEntries[opcode]
DefaultOf(im, opcode) == (CHOOSE d \in im.defaultEntries : d[1] = opcode)[2]

SetDefault(im, opcode, id) ==
    { d \in im.defaultEntries : d[1] # opcode } \cup { <<opcode, id>> }

\* InstMap::add_generic_inst
add_generic_inst(im, opcode) ==
    IF HasDefault(im, opcode) THEN [im |-> im, err |-> FALSE]
    ELSE IF opcode \in GenericOpcodes \cup im.custom_gen
         THEN [im |-> [im EXCEPT
                    !.entries = Append(@, GenerateDefault(im.next_id, opcode, im.custom_gen)),
                    !.defaultEntries = SetDefault(im, opcode, im.next_id),
                    !.next_id = @ + 1],
               err |-> FALSE]
         ELSE [im |-> im, err |-> TRUE]

\* InstMap::add_custom_inst
add_custom_inst(im, opcode) ==
    IF HasDefault(im, opcode) THEN im
    ELSE [im EXCEPT
            !.custom_gen = @ \cup {opcode},
            !.entries = Append(@, GenerateDefault(im.next_id, opcode, im.custom_gen \cup {opcode})),
            !.defaultEntries = SetDefault(im, opcode, im.next_id),
            !.next_id = @ + 1]

\* add_map_entry that leaves the default entry in the list
add_map_entry_keeps_default(im, opcode, map_cond) ==
    IF ~HasDefault(im, opcode) THEN [im |-> im, err |-> TRUE]
    ELSE [im |-> [im EXCEPT
                !.entries = Append(@, Generate(im.next_id, opcode, map_cond, im.custom_gen)),
                !.defaultEntries = SetDefault(im, opcode, 0),
                !.next_id = @ + 1],
          err |-> FALSE]

\* InstMap::add_map_entry
add_map_entry(im, opcode, map_cond) ==
    IF ~HasDefault(im, opcode) THEN [im |-> im, err |-> TRUE]
    ELSE LET x == Generate(im.next_id, opcode, map_cond, im.custom_gen)
         IN IF DefaultOf(im, opcode) # 0
            THEN [im |-> [im EXCEPT
                       !.entries = Append(SelectSeq(@, LAMBDA e : e.id # DefaultOf(im, opcode)), x),
                       !.defaultEntries = SetDefault(im, opcode, 0),
                       !.next_id = @ + 1],
                  err |-> FALSE]
            ELSE [im |-> [im EXCEPT !.entries = Append(@, x), !.next_id = @ + 1],
                  err |-> FALSE]

\* ------------------------------------------------- the model of the pipeline
\* the instruction map of the CGRA model the pipeline runs with: the generic
\* instruction add and the custom instruction fma
PipeMap == add_custom_inst(add_generic_inst(NewInstMap, "add").im, "fma")

\* an instruction of a loop body as the instruction map sees it
ToInst(ins) ==
    Inst(ins.kind,
         [i \in 1..Len(ins.ops) |-> Operand(IsConstant(ins.ops[i]), 1)],
         "none", {},
         IF ins.kind = "call" THEN "fma" ELSE "none",
         ins.kind = "call")

\* CGRAModel::isSupported: the position of the entry, 0 for nullptr
isSupported(ins) == find(PipeMap.entries, ToInst(ins))

\* InstMapEntry::getMapName
getMapName(e) == e.map_cond.map_name

\* ScalarEvolution::getSCEV of the address of a memory access
AddrSCEV(body, a) ==
    IF a = "p" THEN SCEVAddRec(SCEVUnknown("p"), SCEVConstant(4), 8)
    ELSE IF a = "q" THEN SCEVAddRec(SCEVUnknown("q"), SCEVUnknown("inv"), 8)
    ELSE IF IsInst(body, a) /\ InstOf(body, a).kind = "gep"
         THEN SCEVAdd(SCEVUnknown("p"), SCEVMul(SCEVConstant(4), SCEVUnknown(InstOf(body, a).ops[2])))
         ELSE SCEVUnknown(a)

\* the address operand of a load or a store
AddrOperand(ins) == IF ins.kind = "load" THEN ins.ops[1] ELSE ins.ops[2]

\* AffineAGCompatibility(): no configuration, no violation
NewAffineAGCompatibility == [config |-> {}, isViolate |-> FALSE]

\* add without the setVio() of an invalid configuration
addKeepsValid(result, I, C) ==
    [config |-> { c \in result.config : c[1] # I } \cup { <<I, C>> },
     isViolate |-> result.isViolate]

\* AffineAGCompatibility::add: config is the set of its
\* <<instruction, configuration>> pairs
add(result, I, C) ==
    [config |-> { c \in result.config : c[1] # I } \cup { <<I, C>> },
     isViolate |-> result.isViolate \/ ~C.valid]

\* the loops of VerifyAGCompatiblePass<AffineAGCompatibility>::run over the
\* accesses, <<instruction, SCEV of its address>> each
RECURSIVE VerifyAccesses(_, _)
VerifyAccesses(result, accesses) ==
    IF accesses = <<>> THEN result
    ELSE VerifyAccesses(add(result, Head(accesses)[1], verifySCEVAsAffineAG(Head(accesses)[2])),
                        Tail(accesses))

\* VerifyAGCompatiblePass<AffineAGCompatibility>::run
AGRun(body, DA) ==
    IF ~DA.err
    THEN VerifyAccesses(NewAffineAGCompatibility,
                        [i \in 1..Len(SeqOfSet(DA.loads) \o SeqOfSet(DA.stores)) |->
                            LET I == (SeqOfSet(DA.loads) \o SeqOfSet(DA.stores))[i]
                            IN <<I, AddrSCEV(body, AddrOperand(InstOf(body, I)))>>])
    ELSE NewAffineAGCompatibility

\* VerifyInstAvailabilityPass<DecoupledVerifyPass>::checkUnsupportedInst
checkUnsupportedInst(body, DA) == { v \in DA.comp : isSupported(InstOf(body, v)) = 0 }

\* the results bundled in the LoopVerifyResult of one loop: TRUE is a pass.
\* The DecoupleAnalysisResult is built from the printed analysis and is
\* never marked as violated.
Verify(model_ildep, loop) ==
    LET DA == Decouple(loop.body)
    IN [Decouple |-> TRUE,
        InterLoopDep |-> IF model_ildep = "No" THEN ~(loop.ndep > 0) ELSE TRUE,
        InstAvailability |-> checkUnsupportedInst(loop.body, DA) = {},
        AGCompatibility |-> ~AGRun(loop.body, DA).isViolate]

\* LoopVerifyResult::bool_operator_impl
bool_operator_impl(r) ==
    r.Decouple /\ r.InterLoopDep /\ r.InstAvailability /\ r.AGCompatibility

\* --------------------------------- createDataFlowGraph<DecoupledVerifyPass>
\* the values of a function in the order of their addresses
ValueOrder == InstNames \o <<"p", "q", "pp", "sched", "inv", "cst", "cast", "castsrc", "iv", "fn">>

\* DFGNode(val): the ID is the address of the value
ValueID(v) == CHOOSE j \in 1..Len(ValueOrder) : ValueOrder[j] = v

make_mem_node(body, v) ==
    DFGNode(v, ValueID(v), IF IsLoadInst(body, v) THEN "MemLoad" ELSE "MemStore", InstOf(body, v).kind)

make_comp_node(body, v) ==
    DFGNode(v, ValueID(v), "Compute", getMapName(PipeMap.entries[isSupported(InstOf(body, v))]))

make_const_node(v) == DFGNode(v, ValueID(v), "Constant", "const")

\* the builder state is the graph and value_to_node (a set of
\* <<value, node>> pairs; a value without a pair maps to nullptr)
value_to_node(b, v) ==
    IF \E m \in b.vtn : m[1] = v THEN (CHOOSE m \in b.vtn : m[1] = v)[2] ELSE NoValue

\* NewNode = G->addNode(*NewNode); value_to_node[val] = NewNode
AddValueNode(b, v, N) ==
    [g |-> addNode(b.g, N),
     vtn |-> { m \in b.vtn : m[1] # v } \cup { <<v, AddNodeResult(b.g, N)>> }]

RECURSIVE AddMemNodes(_, _, _)
AddMemNodes(b, body, vs) ==
    IF vs = <<>> THEN b
    ELSE AddMemNodes(AddValueNode(b, Head(vs), make_mem_node(body, Head(vs))), body, Tail(vs))

RECURSIVE AddCompNodes(_, _, _)
AddCompNodes(b, body, vs) ==
    IF vs = <<>> THEN b
    ELSE AddCompNodes(IF isSupported(InstOf(body, Head(vs))) # 0
                      THEN AddValueNode(b, Head(vs), make_comp_node(body, Head(vs)))
                      ELSE b,
                      body, Tail(vs))

RECURSIVE AddConstNodes(_, _)
AddConstNodes(b, vs) ==
    IF vs = <<>> THEN b
    ELSE AddConstNodes(AddValueNode(b, Head(vs), make_const_node(Head(vs))), Tail(vs))

\* the connect lambda, from operand i (counted from 0) on
RECURSIVE ConnectOperands(_, _, _, _, _)
ConnectOperands(b, body, I, i, num_operand) ==
    IF i >= num_operand THEN b
    ELSE LET src == value_to_node(b, InstOf(body, I).ops[i + 1])
             dst == value_to_node(b, I)
         IN ConnectOperands(IF src # NoValue
                            THEN [b EXCEPT !.g = connect(@, DFGEdge(src, dst, i))]
                            ELSE b,
                            body, I, i + 1, num_operand)

\* the custom_op set of the builder
custom_op(body, v) ==
    isSupported(InstOf(body, v)) # 0 /\ PipeMap.entries[isSupported(InstOf(body, v))].cls = "Custom"

RECURSIVE ConnectComps(_, _, _)
ConnectComps(b, body, vs) ==
    IF vs = <<>> THEN b
    ELSE ConnectComps(ConnectOperands(b, body, Head(vs), 0,
                                      IF custom_op(body, Head(vs))
                                      THEN Len(InstOf(body, Head(vs)).ops) - 1
                                      ELSE Len(InstOf(body, Head(vs)).ops)),
                      body, Tail(vs))

RECURSIVE ConnectStores(_, _, _)
ConnectStores(b, body, vs) ==
    IF vs = <<>> THEN b
    ELSE ConnectStores(ConnectOperands(b, body, Head(vs), 0, Len(InstOf(body, Head(vs)).ops) - 1),
                       body, Tail(vs))

\* the invariants in a fixed order
RECURSIVE SeqOfValues(_)
SeqOfValues(S) ==
    IF S = {} THEN <<>>
    ELSE LET m == CHOOSE x \in S : \A y \in S : ValueID(x) <= ValueID(y)
         IN <<m>> \o SeqOfValues(S \ {m})

createDataFlowGraph(body, DA) ==
    LET b0 == [g |-> NewCGRADFG, vtn |-> {}]
        b1 == AddMemNodes(b0, body, SeqOfSet(DA.loads))
        b2 == AddMemNodes(b1, body, SeqOfSet(DA.stores))
        b3 == AddCompNodes(b2, body, SeqOfSet(DA.comp))
        b4 == AddConstNodes(b3, SeqOfValues(DA.invars))
        b5 == ConnectComps(b4, body, SeqOfSet(DA.comp))
        b6 == ConnectStores(b5, body, SeqOfSet(DA.stores))
    IN b6.g

\* ------------------------------------------------------------------- state
VARIABLES
    func,           \* the loop kernels of the function: [body, ndep] each
    ildep,          \* the inter-loop-dependency capability of the CGRA model
    pc,             \* "verify", then "build"
    li,             \* the next loop to verify, then the next kernel to build
    lvr,            \* the LoopVerifyResult of the loops verified so far
    valid_kernels,  \* VerifyResult::valid_kernels
    graphs,         \* the graphs added by the builder, [loop, g] each
    G,              \* a CGRADFG driven through its interface
    constructed,    \* whether G has been constructed
    ag_kernel,      \* the address SCEVs of the accesses of a kernel
    ag_state,       \* "none", "loaded", "error" or "verified"
    max_nests,      \* AffineAG::max_nests
    ag_result,      \* the AffineAGCompatibility of the kernel
    imap,           \* an InstMap driven through its interface
    ret,            \* the last call on imap, [op, I, value], and what it returned
    pb,             \* the DFGPassBuilder and DFGPassManager of a DFGPassHandler
    si,             \* a function through OmpStaticShecudleAnalysis and the verifier's prologue
    hd,             \* a DFGPassHandler::run over the kernels of a module
    ld,             \* a LoopDependencyAnalysisPass::run over the accesses of a loop
    tm,             \* a time-multiplexed createDataFlowGraph over the dependencies of a loop
    rn,             \* a CGRADFG through makeSequentialNodeID and the extra-info export
    opt,            \* a key=value argument through parser<OptKeyValue>::parse
    ml,             \* a model configuration through ModelManagerPass::run and the passes that ask for the model
    ph,             \* a phi of a loop through the register-dependency search of LoopDependencyAnalysisPass::run
    fl,             \* the breadth-first search of DecoupledAnalysisPass::run, one iteration at a time
    nid             \* nodes made from the addresses of IR values and added to a graph

vars == <<func, ildep, pc, li, lvr, valid_kernels, graphs, G, constructed,
          ag_kernel, ag_state, max_nests, ag_result, imap, ret, pb, si, hd, ld, tm, rn, opt, ml, ph, fl, nid>>

pipeline_vars == <<func, ildep, pc, li, lvr, valid_kernels, graphs>>

graph_vars == <<G, constructed>>

ag_vars == <<ag_kernel, ag_state, max_nests, ag_result>>

imap_vars == <<imap, ret>>

\* the variables of the parts added to the model after the four above
aux_vars == <<pb, si, hd, ld, tm, rn, opt, ml, ph, fl, nid>>

base_vars == <<pipeline_vars, graph_vars, ag_vars, imap_vars>>

\* the variables of a part of the model that is not running
GraphIdle == G = EmptyGraph /\ constructed = FALSE

AGIdle ==
    /\ ag_kernel = <<>>
    /\ ag_state = "none"
    /\ max_nests = 0
    /\ ag_result = NewAffineAGCompatibility

NoInst == Inst("none", <<>>, "none", {}, "none", FALSE)

InstMapIdle == imap = NewInstMap /\ ret = [op |-> "none", I |-> NoInst, value |-> 0]

\* no DFGPassHandler under construction
NoPassBuilder ==
    [phase |-> "idle", plugins |-> <<>>, texts |-> <<>>, callback_list |-> <<>>,
     pipeline |-> <<>>, invoked |-> <<>>, changed |-> FALSE, graph |-> <<>>]

\* no function under schedule analysis
NoSchedule ==
    [phase |-> "idle", calls |-> <<>>, ptrs |-> {}, valid |-> FALSE, info |-> {},
     excluded |-> {}]

\* no handler running
NoHandler ==
    [phase |-> "idle", kernels |-> <<>>, pipeline |-> <<>>, unwritable |-> {},
     fi |-> 1, graph_list |-> <<>>, gi |-> 1, log |-> <<>>]

\* no loop under dependency analysis
NoLoopDep ==
    [phase |-> "idle", deps |-> <<>>, threshold |-> 0, thr_type |-> "int",
     k |-> 1, mem_deps |-> <<>>]

\* no time-multiplexed graph under construction
NoTMGraph ==
    [phase |-> "idle", body |-> <<>>, idv_deps |-> <<>>, lc_deps |-> <<>>, mem_deps |-> <<>>,
     kernel_inst |-> {}, b |-> [g |-> EmptyGraph, vtn |-> {}]]

\* no graph under export
NoRenumber ==
    [phase |-> "idle", extra |-> {}, written |-> <<>>]

\* no option argument under parsing
NoOption ==
    [phase |-> "idle", Arg |-> <<>>, valid |-> FALSE, key |-> <<>>, value |-> <<>>, error |-> FALSE]

\* no model configuration under loading
NoModelLoad ==
    [phase |-> "idle", cfg |-> <<>>, model |-> "none", examined |-> <<>>, log |-> <<>>, verified |-> FALSE, exported |-> FALSE]

\* no phi under dependency analysis
NoPhi ==
    [phase |-> "idle", indvar |-> FALSE, incoming |-> <<>>, deps |-> <<>>]

\* no search running
NoFlood ==
    [phase |-> "idle", body |-> <<>>, fifo |-> <<>>, traversed |-> {}, pushed |-> <<>>, expanded |-> {}]

\* no graph of address-numbered nodes
NoNodeID ==
    [phase |-> "idle", addr |-> <<>>, g |-> EmptyGraph, last |-> NoValue, ret |-> NoValue]

\* every added part but part k is not running
AuxIdleExcept(k) ==
    /\ k # "pb" => pb = NoPassBuilder
    /\ k # "si" => si = NoSchedule
    /\ k # "hd" => hd = NoHandler
    /\ k # "ld" => ld = NoLoopDep
    /\ k # "tm" => tm = NoTMGraph
    /\ k # "rn" => rn = NoRenumber
    /\ k # "opt" => opt = NoOption
    /\ k # "ml" => ml = NoModelLoad
    /\ k # "ph" => ph = NoPhi
    /\ k # "fl" => fl = NoFlood
    /\ k # "nid" => nid = NoNodeID

AuxIdle == AuxIdleExcept("none")

not_pb == <<base_vars, si, hd, ld, tm, rn, opt, ml, ph, fl, nid>>

not_si == <<base_vars, pb, hd, ld, tm, rn, opt, ml, ph, fl, nid>>

not_hd == <<base_vars, pb, si, ld, tm, rn, opt, ml, ph, fl, nid>>

not_ld == <<base_vars, pb, si, hd, tm, rn, opt, ml, ph, fl, nid>>

not_tm == <<base_vars, pb, si, hd, ld, rn, opt, ml, ph, fl, nid>>

not_rn == <<base_vars, pb, si, hd, ld, tm, opt, ml, ph, fl, nid>>

not_opt == <<base_vars, pb, si, hd, ld, tm, rn, ml, ph, fl, nid>>

not_ml == <<base_vars, pb, si, hd, ld, tm, rn, opt, ph, fl, nid>>

not_ph == <<base_vars, pb, si, hd, ld, tm, rn, opt, ml, fl, nid>>

not_fl == <<base_vars, pb, si, hd, ld, tm, rn, opt, ml, ph, nid>>

not_nid == <<base_vars, pb, si, hd, ld, tm, rn, opt, ml, ph, fl>>

PipelineIdle ==
    /\ func = <<>>
    /\ ildep = "No"
    /\ pc = "idle"
    /\ li = 1
    /\ lvr = <<>>
    /\ valid_kernels = <<>>
    /\ graphs = <<>>

BaseIdle == PipelineIdle /\ GraphIdle /\ AGIdle /\ InstMapIdle

\* func is a function of at most MaxLoops loop kernels and at most MaxInst
\* instructions in all: done are the loops already chosen, body the
\* instructions chosen for the next one, budget the instructions left
RECURSIVE IsFunc(_, _, _)
IsFunc(done, body, budget) ==
    \/ /\ budget > 0
       /\ \E ins \in InstChoices(body) : IsFunc(done, Append(body, ins), budget - 1)
    \/ /\ body # <<>>
       /\ \E d \in 0..1 :
             \/ func = Append(done, [body |-> body, ndep |-> d])
             \/ /\ Len(done) + 1 < MaxLoops
                /\ budget > 0
                /\ \E ins \in InstChoices(<<>>) :
                      IsFunc(Append(done, [body |-> body, ndep |-> d]), <<ins>>, budget - 1)

Init ==
    /\ IsFunc(<<>>, <<>>, MaxInst)
    /\ ildep \in {"No", "BackwardInst"}
    /\ pc = "verify"
    /\ li = 1
    /\ lvr = <<>>
    /\ valid_kernels = <<>>
    /\ graphs = <<>>
    /\ GraphIdle
    /\ AGIdle
    /\ InstMapIdle
    /\ AuxIdle

\* one iteration of the loop over the kernels in DecoupledVerifyPass::run
VerifyLoop ==
    /\ pc = "verify"
    /\ li <= Len(func)
    /\ LET r == Verify(ildep, func[li])
       IN /\ lvr' = Append(lvr, r)
          /\ valid_kernels' = IF bool_operator_impl(r) THEN Append(valid_kernels, li) ELSE valid_kernels
    /\ li' = IF li = Len(func) THEN 1 ELSE li + 1
    /\ pc' = IF li = Len(func) THEN "build" ELSE "verify"
    /\ UNCHANGED <<func, ildep, graphs, graph_vars, ag_vars, imap_vars, aux_vars>>

\* one iteration of the loop over the valid kernels in
\* createDataFlowGraphsForAllKernels
CreateDataFlowGraph ==
    /\ pc = "build"
    /\ li <= Len(valid_kernels)
    /\ graphs' = Append(graphs, [loop |-> valid_kernels[li],
                                 g |-> createDataFlowGraph(func[valid_kernels[li]].body,
                                                           Decouple(func[valid_kernels[li]].body))])
    /\ li' = li + 1
    /\ UNCHANGED <<func, ildep, pc, lvr, valid_kernels, graph_vars, ag_vars, imap_vars, aux_vars>>

Next == VerifyLoop \/ CreateDataFlowGraph

Spec == Init /\ [][Next]_vars

\* ------------------------------------------ a graph driven by its interface
\* the nodes a client may hand to the graph: a load, a computation, a store, ...
PoolKind(j) == IF j = 1 THEN "MemLoad" ELSE IF j % 2 = 0 THEN "Compute" ELSE "MemStore"

NodePool == { DFGNode(NameOf(j), ValueID(NameOf(j)), PoolKind(j), "op") : j \in 1..MaxNodes }

InitGraph ==
    /\ PipelineIdle
    /\ AGIdle
    /\ InstMapIdle
    /\ AuxIdle
    /\ G = EmptyGraph
    /\ constructed = FALSE

\* CGRADFG(Function *F, Loop *L)
NewGraph ==
    /\ ~constructed
    /\ G' = NewCGRADFG
    /\ constructed' = TRUE
    /\ UNCHANGED <<pipeline_vars, ag_vars, imap_vars, aux_vars>>

\* CGRADFG(NodeType &N)
NewGraphWithNode ==
    /\ ~constructed
    /\ \E N \in NodePool : G' = NewCGRADFGWithNode(N)
    /\ constructed' = TRUE
    /\ UNCHANGED <<pipeline_vars, ag_vars, imap_vars, aux_vars>>

\* CGRADFG::addNode
GraphAddNode ==
    /\ constructed
    /\ \E N \in NodePool : G' = addNode(G, N)
    /\ UNCHANGED <<pipeline_vars, constructed, ag_vars, imap_vars, aux_vars>>

\* CGRADFG::connect from a node other than the virtual root
GraphConnect ==
    /\ constructed
    /\ Len(G.edges) < MaxEdges
    /\ \E src \in NodeVals(G) \ {getRoot.val}, dst \in NodeVals(G) \ {getRoot.val}, operand \in 0..1 :
          /\ ~connectAsserts(G, DFGEdge(src, dst, operand))
          /\ G' = connect(G, DFGEdge(src, dst, operand))
    /\ UNCHANGED <<pipeline_vars, constructed, ag_vars, imap_vars, aux_vars>>

NextGraph == NewGraph \/ NewGraphWithNode \/ GraphAddNode \/ GraphConnect

SpecGraph == InitGraph /\ [][NextGraph]_vars

\* ------------------------------------- the Affine AG verified on its own
INT_MAX == 2147483647

AddressBases == { SCEVUnknown("p"), SCEVAdd(SCEVUnknown("p"), SCEVConstant(1)), SCEVOther }

RecurrenceSteps == { SCEVConstant(4), SCEVUnknown("inv") }

\* the address expressions of at most d AddRec levels
RECURSIVE Nests(_)
Nests(d) ==
    IF d = 0 THEN AddressBases
    ELSE Nests(d - 1) \cup { SCEVAddRec(start, step, 8) : start \in Nests(d - 1), step \in RecurrenceSteps }

AddressSCEVs ==
    Nests(MaxNestDepth)
    \cup { SCEVAdd(SCEVAddRec(SCEVUnknown("p"), SCEVConstant(4), 8), SCEVConstant(1)) }

\* the value of the key max_nested_level in the JSON object of the AG
MaxNestSettings ==
    { [present |-> FALSE, isInt |-> FALSE, value |-> 0], [present |-> TRUE, isInt |-> FALSE, value |-> 0] }
    \cup { [present |-> TRUE, isInt |-> TRUE, value |-> n] : n \in 0..(MaxNestDepth - 1) }

InitAG ==
    /\ PipelineIdle
    /\ GraphIdle
    /\ InstMapIdle
    /\ AuxIdle
    /\ \E n \in 1..MaxAccesses : ag_kernel \in [1..n -> AddressSCEVs]
    /\ ag_state = "none"
    /\ max_nests = 0
    /\ ag_result = NewAffineAGCompatibility

\* createAffineAG
createAffineAG ==
    /\ ag_state = "none"
    /\ \E json \in MaxNestSettings :
          IF json.present
          THEN IF json.isInt
               THEN IF json.value > 0
                    THEN max_nests' = json.value /\ ag_state' = "loaded"
                    ELSE max_nests' = max_nests /\ ag_state' = "error"
               ELSE max_nests' = max_nests /\ ag_state' = "error"
          ELSE max_nests' = INT_MAX /\ ag_state' = "loaded"
    /\ UNCHANGED <<pipeline_vars, graph_vars, imap_vars, ag_kernel, ag_result, aux_vars>>

\* VerifyAGCompatiblePass<AffineAGCompatibility>::run on a kernel whose
\* decoupling succeeded and reported the accesses of ag_kernel
VerifyAGCompatible ==
    /\ ag_state = "loaded"
    /\ ag_result' = VerifyAccesses(NewAffineAGCompatibility,
                                   [i \in 1..Len(ag_kernel) |-> <<NameOf(i), ag_kernel[i]>>])
    /\ ag_state' = "verified"
    /\ UNCHANGED <<pipeline_vars, graph_vars, imap_vars, ag_kernel, max_nests, aux_vars>>

NextAG == createAffineAG \/ VerifyAGCompatible

SpecAG == InitAG /\ [][NextAG]_vars

\* ------------------------------- the Affine AG on a three-level loop nest
\* AffineAGCompatibility::getConfigAsJson
getConfigAsJson(result, I) ==
    IF \E c \in result.config : c[1] = I
    THEN LET config_value == (CHOOSE c \in result.config : c[1] = I)[2]
         IN [base |-> IF config_value.base # NoValue THEN config_value.base ELSE "unknown",
             offset |-> [k \in 1..Len(config_value.config) |->
                            [start |-> config_value.config[k].start,
                             step |-> config_value.config[k].step,
                             count |-> config_value.config[k].count]]]
    ELSE [base |-> "", offset |-> <<>>]

\* the SCEV of base + x*Ny*Nz + y*Nz + z in the loop over z, inside the loop
\* over y, inside the loop over x: the AddRec of the innermost loop is the
\* outermost expression
NestAddress(base, Nx, Ny, Nz) ==
    SCEVAddRec(SCEVAddRec(SCEVAddRec(SCEVUnknown(base), SCEVConstant(Ny * Nz), Nx),
                          SCEVConstant(Nz), Ny),
               SCEVConstant(1), Nz)

\* `for x, y, z: C[x][y][z] = A[x][y][z] + B[x][y][z]`: two loads and a store
InitAGNest ==
    /\ PipelineIdle
    /\ GraphIdle
    /\ InstMapIdle
    /\ AuxIdle
    /\ \E Nx \in 2..MaxTripCount, Ny \in 2..MaxTripCount, Nz \in 2..MaxTripCount :
          ag_kernel = <<NestAddress("A", Nx, Ny, Nz), NestAddress("B", Nx, Ny, Nz),
                        NestAddress("C", Nx, Ny, Nz)>>
    /\ ag_state = "none"
    /\ max_nests = 0
    /\ ag_result = NewAffineAGCompatibility

SpecAGNest == InitAGNest /\ [][NextAG]_vars

\* --------------------------------- an instruction map driven by its interface
\* the opcodes a model file may name: those of entry_gen, a custom function,
\* and one that is neither
OpcodeNames == GenericOpcodes \cup {"fma", "bogus"}

\* the entries of instruction_map a model file may give
MapObjects ==
    { [flags |-> {}, pred |-> "none", lhs |-> l, rhs |-> r] :
          l \in {Absent, Present(1)}, r \in {Absent, Present(1)} }

\* the mapping conditions a model file may give
Conditions ==
    { MapCondition("m"),
      setConst(MapCondition("m"), 1, TRUE),
      setConst(MapCondition("m"), 1, FALSE),
      setPred(MapCondition("m"), "eq"),
      setFlags(MapCondition("m"), {"nsw"}) }
    \cup { createMapCondition(json_obj, FALSE).cond : json_obj \in MapObjects }

\* the instructions looked up
Insts ==
    { Inst("add", <<a, b>>, "none", f, "none", FALSE) :
          a \in {Operand(FALSE, 0), Operand(TRUE, 1)},
          b \in {Operand(FALSE, 0), Operand(TRUE, 1)},
          f \in {{}, {"nsw"}} }
    \cup { Inst("icmp", <<Operand(FALSE, 0), b>>, pr, {}, "none", FALSE) :
              b \in {Operand(FALSE, 0), Operand(TRUE, 1)}, pr \in {"eq", "ne"} }
    \cup { Inst("fcmp", <<Operand(FALSE, 0), Operand(FALSE, 0)>>, "oeq", {}, "none", FALSE) }
    \cup { Inst("load", <<Operand(FALSE, 0)>>, "none", {}, "none", FALSE),
           Inst("store", <<Operand(FALSE, 0), Operand(FALSE, 0)>>, "none", {}, "none", FALSE) }
    \cup { Inst("call", <<Operand(FALSE, 0), Operand(FALSE, 0), Operand(FALSE, 0)>>, "none", {}, "fma", an) :
              an \in BOOLEAN }

InitInstMap ==
    /\ PipelineIdle
    /\ GraphIdle
    /\ AGIdle
    /\ InstMapIdle
    /\ AuxIdle

\* InstMap::add_generic_inst(opcode)
AddGenericInst ==
    /\ imap.next_id <= MaxEntries
    /\ \E opcode \in OpcodeNames :
          /\ imap' = add_generic_inst(imap, opcode).im
          /\ ret' = [op |-> "add_generic_inst", I |-> NoInst,
                     value |-> IF add_generic_inst(imap, opcode).err THEN 1 ELSE 0]
    /\ UNCHANGED <<pipeline_vars, graph_vars, ag_vars, aux_vars>>

\* InstMap::add_custom_inst(opcode)
AddCustomInst ==
    /\ imap.next_id <= MaxEntries
    /\ \E opcode \in {"fma", "add"} :
          /\ imap' = add_custom_inst(imap, opcode)
          /\ ret' = [op |-> "add_custom_inst", I |-> NoInst, value |-> 0]
    /\ UNCHANGED <<pipeline_vars, graph_vars, ag_vars, aux_vars>>

\* InstMap::add_map_entry(opcode, map_cond)
AddMapEntry ==
    /\ imap.next_id <= MaxEntries
    /\ \E opcode \in OpcodeNames, map_cond \in Conditions :
          /\ imap' = add_map_entry(imap, opcode, map_cond).im
          /\ ret' = [op |-> "add_map_entry", I |-> NoInst,
                     value |-> IF add_map_entry(imap, opcode, map_cond).err THEN 1 ELSE 0]
    /\ UNCHANGED <<pipeline_vars, graph_vars, ag_vars, aux_vars>>

\* InstMap::find(Instruction *I): value is the position in entries of the
\* entry returned, 0 for nullptr
Find ==
    /\ \E I \in Insts : ret' = [op |-> "find", I |-> I, value |-> find(imap.entries, I)]
    /\ UNCHANGED <<pipeline_vars, graph_vars, ag_vars, imap, aux_vars>>

NextInstMap == AddGenericInst \/ AddCustomInst \/ AddMapEntry \/ Find

SpecInstMap == InitInstMap /\ [][NextInstMap]_vars

\* ----------------------------------------- DFGPassBuilder and DFGPassManager
\* the names claimed by the callback of the built-in passes
BuiltInDFGPasses == {"balance-tree"}

\* A plugin library is [loads, exports, claims]: whether LoadLibraryPermanently
\* succeeds on it, whether it defines getDFGPassPluginInfo, and the pass names
\* the callback that its RegisterPassBuilderCallbacks registers answers to.
PluginLibraries ==
    { [loads |-> FALSE, exports |-> FALSE, claims |-> {}],
      [loads |-> TRUE, exports |-> FALSE, claims |-> {}] }
    \cup { [loads |-> TRUE, exports |-> TRUE, claims |-> c] :
              c \in { {"my-dfg-pass"}, {"balance-tree"} } }

PassNames == {"balance-tree", "my-dfg-pass", "no-such-pass"}

\* a callback of callback_list: the plugin whose register function made it
\* (0: the built-in one) and the names it answers to
CallBack(plugin, claims) == [plugin |-> plugin, claims |-> claims]

\* the libraries among the first i loaded ones in which the symbol
\* getDFGPassPluginInfo can be found: SearchForAddressOfSymbol is not given
\* the library just loaded, it searches every library loaded so far
SymbolProviders(plugins, i) == { j \in 1..i : plugins[j].exports }

\* the loop of search_callback from plugin i on; resolve[i] is the library
\* whose symbol the search returns for plugin i
RECURSIVE search_callback(_, _, _, _)
search_callback(callback_list, plugins, resolve, i) ==
    IF i > Len(plugins) THEN [err |-> FALSE, callback_list |-> callback_list]
    ELSE IF ~plugins[i].loads THEN [err |-> TRUE, callback_list |-> callback_list]
    ELSE IF SymbolProviders(plugins, i) = {} THEN [err |-> TRUE, callback_list |-> callback_list]
    ELSE search_callback(Append(callback_list, CallBack(resolve[i], plugins[resolve[i]].claims)),
                         plugins, resolve, i + 1)

\* DFGPassBuilder::DFGPassBuilder
NewDFGPassBuilder(plugins, resolve) ==
    search_callback(<<CallBack(0, BuiltInDFGPasses)>>, plugins, resolve, 1)

\* the inner loop of parsePassPipeline over callback_list from callback j
\* on: every callback is called, and each one that answers to the name
\* adds its pass to the pass manager
RECURSIVE CallAll(_, _, _, _, _)
CallAll(callback_list, j, pass_name, pipeline, found) ==
    IF j > Len(callback_list) THEN [found |-> found, pipeline |-> pipeline]
    ELSE IF pass_name \in callback_list[j].claims
         THEN CallAll(callback_list, j + 1, pass_name,
                      Append(pipeline, [name |-> pass_name, callback |-> j]), TRUE)
         ELSE CallAll(callback_list, j + 1, pass_name, pipeline, found)

\* DFGPassBuilder::parsePassPipeline from name i on
RECURSIVE parsePassPipeline(_, _, _, _)
parsePassPipeline(callback_list, pipeline, PipelineTexts, i) ==
    IF i > Len(PipelineTexts) THEN [err |-> FALSE, pipeline |-> pipeline]
    ELSE LET r == CallAll(callback_list, 1, PipelineTexts[i], pipeline, FALSE)
         IN IF ~r.found THEN [err |-> TRUE, pipeline |-> r.pipeline]
            ELSE parsePassPipeline(callback_list, r.pipeline, PipelineTexts, i + 1)

\* the run of a pass manager that returns what its last pass reported
RECURSIVE DFGPassManager_run_last(_, _, _, _)
DFGPassManager_run_last(pipeline, reports, i, st) ==
    IF i > Len(pipeline) THEN st
    ELSE DFGPassManager_run_last(pipeline, reports, i + 1,
            [changed |-> reports[i],
             invoked |-> Append(st.invoked, i),
             graph |-> IF reports[i] THEN Append(st.graph, i) ELSE st.graph])

\* DFGPassManager::run from pass i on: reports[i] is what pass->run returns
\* for pass i, st is [changed, invoked, graph], the graph being the
\* sequence of the passes that have rewritten it
RECURSIVE DFGPassManager_run(_, _, _, _)
DFGPassManager_run(pipeline, reports, i, st) ==
    IF i > Len(pipeline) THEN st
    ELSE DFGPassManager_run(pipeline, reports, i + 1,
            [changed |-> st.changed \/ reports[i],
             invoked |-> Append(st.invoked, i),
             graph |-> IF reports[i] THEN Append(st.graph, i) ELSE st.graph])

SeqsUpTo(S, n) == UNION { [1..k -> S] : k \in 0..n }

InitPassBuilder ==
    /\ BaseIdle
    /\ AuxIdleExcept("pb")
    /\ \E plugins \in SeqsUpTo(PluginLibraries, MaxPlugins), texts \in SeqsUpTo(PassNames, MaxPassNames) :
          pb = [NoPassBuilder EXCEPT !.phase = "start", !.plugins = plugins, !.texts = texts]

\* DPB(new DFGPassBuilder()): a failure of search_callback exits the process
ConstructDFGPassBuilder ==
    /\ pb.phase = "start"
    /\ \E resolve \in [1..Len(pb.plugins) -> 1..MaxPlugins] :
          /\ \A i \in 1..Len(pb.plugins) :
                IF SymbolProviders(pb.plugins, i) = {} THEN resolve[i] = i
                ELSE resolve[i] \in SymbolProviders(pb.plugins, i)
          /\ LET r == NewDFGPassBuilder(pb.plugins, resolve)
             IN pb' = [pb EXCEPT !.callback_list = r.callback_list,
                                 !.phase = IF r.err THEN "fatal" ELSE "built"]
    /\ UNCHANGED not_pb

\* the body of DFGPassHandler::DFGPassHandler: a failure of
\* parsePassPipeline exits the process
ConstructDFGPassHandler ==
    /\ pb.phase = "built"
    /\ LET r == parsePassPipeline(pb.callback_list, <<>>, pb.texts, 1)
       IN pb' = [pb EXCEPT !.pipeline = r.pipeline,
                           !.phase = IF r.err THEN "fatal" ELSE "ready"]
    /\ UNCHANGED not_pb

\* DPM->run(*G, ...) on a graph
RunDFGPassManager ==
    /\ pb.phase = "ready"
    /\ \E reports \in [1..Len(pb.pipeline) -> BOOLEAN] :
          LET r == DFGPassManager_run(pb.pipeline, reports, 1,
                                       [changed |-> FALSE, invoked |-> <<>>, graph |-> pb.graph])
          IN pb' = [pb EXCEPT !.phase = "ran", !.changed = r.changed,
                              !.invoked = r.invoked, !.graph = r.graph]
    /\ UNCHANGED not_pb

NextPassBuilder == ConstructDFGPassBuilder \/ ConstructDFGPassHandler \/ RunDFGPassManager

SpecPassBuilder == InitPassBuilder /\ [][NextPassBuilder]_vars

\* ------------------------- OmpStaticShecudleAnalysis and the verifier's prologue
\* A function name is the sequence of its parts; a call is
\* [callee, ops]: callee is the name of the called function, <<>> for an
\* indirect call (getCalledFunction() is null), and ops are the operands,
\* operand i of the code being ops[i + 1].
OMP_STATIC_INIT_SCHED == 2

OMP_STATIC_INIT_CHUNK == 8

OMP_STATIC_INIT_OPERAND_N == OMP_STATIC_INIT_CHUNK + 1

\* StringRef::startswith
startswith(name, prefix) ==
    /\ Len(prefix) <= Len(name)
    /\ SubSeq(name, 1, Len(prefix)) = prefix

KmpcForStaticInit == <<"__kmpc_for", "_static_init">>

StaticInitCall ==
    [callee |-> KmpcForStaticInit \o <<"_4">>,
     ops |-> <<"loc", "gtid", "schedtype", "plastiter", "plower", "pupper",
               "pstride", "incr", "chunk", "callee">>]

Calls ==
    { StaticInitCall,
      [callee |-> KmpcForStaticInit \o <<"_8u">>, ops |-> <<"loc", "callee">>],
      [callee |-> <<"__kmpc_for", "_static_fini">>, ops |-> <<"loc", "gtid", "callee">>],
      [callee |-> <<>>, ops |-> <<"fnptr">>] }

\* the pointer operands of the loads of the loop
LoadPointers == {"p", "plower", "pupper"}

\* OmpScheduleInfo::OmpScheduleInfo(caller, schedule_type, ..., chunk)
OmpScheduleInfo(init_call) ==
    [valid |-> TRUE,
     info |-> { init_call.ops[i + 1] : i \in OMP_STATIC_INIT_SCHED..OMP_STATIC_INIT_CHUNK }]

\* OmpScheduleInfo::OmpScheduleInfo(): the set holds the null pointer
invalid_info == [valid |-> FALSE, info |-> {"nullptr"}]

\* OmpScheduleInfo::contains
contains(SI, V) == V \in SI.info

\* the search of OmpStaticShecudleAnalysis::run from call i on: the index
\* of the first call whose callee name starts with __kmpc_for_static_init,
\* 0 when there is none.  deref[i] is what reading the name through the
\* null callee of an indirect call i does: "crash", or "skip" when the
\* garbage read does not match
RECURSIVE find_init_call(_, _, _)
find_init_call(calls, deref, i) ==
    IF i > Len(calls) THEN 0
    ELSE IF calls[i].callee = <<>>
         THEN IF deref[i] = "crash" THEN -1 ELSE find_init_call(calls, deref, i + 1)
         ELSE IF startswith(calls[i].callee, KmpcForStaticInit) THEN i
              ELSE find_init_call(calls, deref, i + 1)

\* OmpStaticShecudleAnalysis::run: [crash, SI]
OmpStaticShecudleAnalysis_run(calls, deref) ==
    LET init_call == find_init_call(calls, deref, 1)
    IN IF init_call = -1 THEN [crash |-> TRUE, SI |-> invalid_info]
       ELSE IF init_call # 0 /\ Len(calls[init_call].ops) >= OMP_STATIC_INIT_OPERAND_N
            THEN [crash |-> FALSE, SI |-> OmpScheduleInfo(calls[init_call])]
            ELSE [crash |-> FALSE, SI |-> invalid_info]

\* the loads DecoupledAnalysisPass::run leaves out of mem_load as
\* information about loop scheduling
ScheduleLoads(SI, ptrs) == { ptr \in ptrs : contains(SI, ptr) }

MaxCalls == 2

InitSchedule ==
    /\ BaseIdle
    /\ AuxIdleExcept("si")
    /\ \E calls \in SeqsUpTo(Calls, MaxCalls), ptrs \in SUBSET LoadPointers :
          si = [NoSchedule EXCEPT !.phase = "start", !.calls = calls, !.ptrs = ptrs]

\* AM.getResult<OmpStaticShecudleAnalysis>(F)
GetScheduleInfo ==
    /\ si.phase = "start"
    /\ \E deref \in [1..Len(si.calls) -> {"crash", "skip"}] :
          LET r == OmpStaticShecudleAnalysis_run(si.calls, deref)
          IN si' = [si EXCEPT !.phase = IF r.crash THEN "crash" ELSE "analysed",
                              !.valid = r.SI.valid, !.info = r.SI.info]
    /\ UNCHANGED not_si

\* the prologue of DecoupledVerifyPass::run and of
\* TimeMultiplexedVerifyPass::run: if (!SI) Exit(...)
CheckScheduleInfo ==
    /\ si.phase = "analysed"
    /\ si' = [si EXCEPT !.phase = IF ~si.valid THEN "fatal" ELSE "verifying"]
    /\ UNCHANGED not_si

\* the search of DecoupledAnalysisPass::run for the memory accesses of the loop
SearchMemoryAccess ==
    /\ si.phase = "verifying"
    /\ si' = [si EXCEPT !.phase = "decoupled",
                        !.excluded = ScheduleLoads([valid |-> si.valid, info |-> si.info], si.ptrs)]
    /\ UNCHANGED not_si

NextSchedule == GetScheduleInfo \/ CheckScheduleInfo \/ SearchMemoryAccess

SpecSchedule == InitSchedule /\ [][NextSchedule]_vars

\* --------------------------------------------------------- DFGPassHandler::run
\* kernel_info.kernels() is the sequence of the kernel functions, each given
\* as verify_result.kernels(), the sequence of its valid loops.  A graph is
\* <<f, l>>, the position of its function and the name of its loop.  The
\* log holds what the run has done: [ev |-> "pass", g, n] for pass n run on
\* graph g, [ev |-> "export", g, n |-> 0] for the file of g written.
MaxKernels == 2

ValidKernelLists == { <<>>, <<1>>, <<2>>, <<1, 2>>, <<2, 1>> }

\* the mutant of createDataFlowGraphsForAllKernels that puts each graph at
\* the front of the list
RECURSIVE createDataFlowGraphsForAllKernels_front(_, _, _, _)
createDataFlowGraphsForAllKernels_front(f, kernels, i, graph_list) ==
    IF i > Len(kernels) THEN graph_list
    ELSE createDataFlowGraphsForAllKernels_front(f, kernels, i + 1,
            <<(<<f, kernels[i]>>)>> \o graph_list)

\* createDataFlowGraphsForAllKernels on function f from its valid loop i
\* on: createDataFlowGraph ends in addGraph(G)
RECURSIVE createDataFlowGraphsForAllKernels(_, _, _, _)
createDataFlowGraphsForAllKernels(f, kernels, i, graph_list) ==
    IF i > Len(kernels) THEN graph_list
    ELSE createDataFlowGraphsForAllKernels(f, kernels, i + 1,
            Append(graph_list, <<f, kernels[i]>>))

\* CGRADFG::saveAsDotGraph: whether the file could be opened and written
saveAsDotGraph(g, unwritable) == g \notin unwritable

\* what DPM->run appends to the log for graph g
PassEvents(g, invoked) ==
    [k \in 1..Len(invoked) |-> [ev |-> "pass", g |-> g, n |-> invoked[k]]]

InitHandler ==
    /\ BaseIdle
    /\ AuxIdleExcept("hd")
    /\ \E kernels \in SeqsUpTo(ValidKernelLists, MaxKernels),
          pipeline \in SeqsUpTo(BuiltInDFGPasses, MaxPassNames) :
          \E unwritable \in SUBSET UNION { { <<f, kernels[f][i]>> : i \in 1..Len(kernels[f]) } : f \in 1..Len(kernels) } :
             hd = [NoHandler EXCEPT !.phase = "create", !.kernels = kernels,
                                    !.pipeline = pipeline, !.unwritable = unwritable]

\* one iteration of the loop over kernel_info.kernels()
CreateGraphsOfKernel ==
    /\ hd.phase = "create"
    /\ hd.fi <= Len(hd.kernels)
    /\ hd' = [hd EXCEPT !.graph_list = createDataFlowGraphsForAllKernels(
                                            hd.fi, hd.kernels[hd.fi], 1, hd.graph_list),
                        !.fi = hd.fi + 1]
    /\ UNCHANGED not_hd

\* the end of the loop over the kernels
StartExport ==
    /\ hd.phase = "create"
    /\ hd.fi > Len(hd.kernels)
    /\ hd' = [hd EXCEPT !.phase = "export"]
    /\ UNCHANGED not_hd

\* one iteration of the loop over graphs(): DPM->run, then saveAsDotGraph,
\* an error of which exits the process
OptimizeAndExport ==
    /\ hd.phase = "export"
    /\ hd.gi <= Len(hd.graph_list)
    /\ \E reports \in [1..Len(hd.pipeline) -> BOOLEAN] :
          LET g == hd.graph_list[hd.gi]
              r == DFGPassManager_run(hd.pipeline, reports, 1,
                                      [changed |-> FALSE, invoked |-> <<>>, graph |-> <<>>])
              ran == hd.log \o PassEvents(g, r.invoked)
          IN IF saveAsDotGraph(g, hd.unwritable)
             THEN hd' = [hd EXCEPT !.log = Append(ran, [ev |-> "export", g |-> g, n |-> 0]),
                                   !.gi = hd.gi + 1]
             ELSE hd' = [hd EXCEPT !.log = ran, !.phase = "fatal"]
    /\ UNCHANGED not_hd

\* return PreservedAnalyses::all()
ReturnFromRun ==
    /\ hd.phase = "export"
    /\ hd.gi > Len(hd.graph_list)
    /\ hd' = [hd EXCEPT !.phase = "done"]
    /\ UNCHANGED not_hd

NextHandler == CreateGraphsOfKernel \/ StartExport \/ OptimizeAndExport \/ ReturnFromRun

SpecHandler == InitHandler /\ [][NextHandler]_vars

\* ------------------------------------------------ LoopDependencyAnalysisPass
\* A dependence of the LoopAccessAnalysis is [backward, src, dst, diff,
\* word]: src and dst are the opcodes of its source and destination, diff
\* is the scalar evolution of pointer(dst) - pointer(src) in bytes, a
\* constant or not, and word is the size of the accessed type in bytes.
\* 64-bit words are sequences of four 16-bit limbs, most significant first.
Limb == 2^16

\* APInt::getRawData of a 64-bit constant: its two's complement word
getRawData(v) ==
    IF v >= 0 THEN <<0, 0, 0, v>>
    ELSE <<Limb - 1, Limb - 1, Limb - 1, Limb + v>>

\* the unsigned division of a 64-bit word by a positive int, limb i on,
\* with the remainder carried from the limbs before it
RECURSIVE udiv64(_, _, _, _)
udiv64(word, d, i, rem) ==
    IF i > Len(word) THEN <<>>
    ELSE LET cur == rem * Limb + word[i]
         IN <<cur \div d>> \o udiv64(word, d, i + 1, cur % d)

\* the conversion of a 64-bit word to int: its low 32 bits, two's complement
ToInt(word) ==
    IF word[3] >= Limb \div 2 THEN (word[3] - Limb) * Limb + word[4]
    ELSE word[3] * Limb + word[4]

\* LoopDependencyAnalysisPass::getDistance(def, use, SE) for a store def
\* and a load use
getDistance(diff, word_size) ==
    IF diff.const THEN Present(ToInt(udiv64(getRawData(diff.val), word_size, 1, 0)))
    ELSE Absent

\* the declared type of the mem-dep-distance option
ThresholdTypes == {"int", "unsigned"}

\* *Dist <= OptMemoryDependencyDistanceThreshold: an int against an
\* unsigned is compared as unsigned
WithinThreshold(Dist, threshold, thr_type) ==
    IF thr_type = "unsigned" THEN Dist >= 0 /\ Dist <= threshold
    ELSE Dist <= threshold

\* the body of the loop of run over the dependences: result.add_mem_dep
VisitDependenceBody(dep, threshold, thr_type, mem_deps) ==
    IF ~dep.backward \/ dep.src # "load" \/ dep.dst # "store" THEN mem_deps
    ELSE LET Dist == getDistance(dep.diff, dep.word)
         IN IF Dist.present /\ WithinThreshold(Dist.value, threshold, thr_type)
            THEN Append(mem_deps, [diff |-> dep.diff.val, word |-> dep.word, distance |-> Dist.value])
            ELSE mem_deps

MaxDeps == 2

MaxThreshold == 2

WordSizes == {4, 8}

\* the byte differences of the pointers of a dependent pair: LoopAccessAnalysis
\* reports no dependence at difference 0 as backward, and takes the
\* difference the other way round in a loop that steps downwards
PtrDiffs == {-4, 2, 4, 8, 16}

Dependences ==
    { [backward |-> b, src |-> o[1], dst |-> o[2], diff |-> d, word |-> w] :
        b \in BOOLEAN, o \in {<<"load", "store">>, <<"store", "store">>},
        d \in { [const |-> TRUE, val |-> v] : v \in PtrDiffs } \cup {[const |-> FALSE, val |-> 0]},
        w \in WordSizes }

InitLoopDep ==
    /\ BaseIdle
    /\ AuxIdleExcept("ld")
    /\ \E deps \in SeqsUpTo(Dependences, MaxDeps), threshold \in 0..MaxThreshold,
          thr_type \in ThresholdTypes :
          ld = [NoLoopDep EXCEPT !.phase = "run", !.deps = deps,
                                 !.threshold = threshold, !.thr_type = thr_type]

\* one iteration of the loop over *deps
VisitDependence ==
    /\ ld.phase = "run"
    /\ ld.k <= Len(ld.deps)
    /\ ld' = [ld EXCEPT !.mem_deps = VisitDependenceBody(ld.deps[ld.k], ld.threshold,
                                                        ld.thr_type, ld.mem_deps),
                        !.k = ld.k + 1]
    /\ UNCHANGED not_ld

\* return result
ReturnLoopDep ==
    /\ ld.phase = "run"
    /\ ld.k > Len(ld.deps)
    /\ ld' = [ld EXCEPT !.phase = "done"]
    /\ UNCHANGED not_ld

NextLoopDep == VisitDependence \/ ReturnLoopDep

SpecLoopDep == InitLoopDep /\ [][NextLoopDep]_vars

\* ------------------------- createDataFlowGraph<TimeMultiplexedVerifyPass>
\* The loop is a verified kernel: body is the sequence of its instructions
\* other than phis, getelementptrs and the loop control, [name, opcode, ops]
\* each, all supported by the CGRA model.  "iv" is the induction phi, "acc"
\* a phi carrying a value between iterations, "cst" a Constant, "arg" an
\* Argument.  A dependency is [def, init, phi, use]: use is the load of a
\* memory dependency, NoValue in the other kinds.  The distance of a
\* LoopDependencyEdge is not kept.
TMNames == <<"t1", "t2", "t3">>

TMValueOrder == TMNames \o <<"iv", "acc", "cst", "arg">>

\* the address of a value, the ID of the nodes made for it
TMValueID(v) == CHOOSE j \in 1..Len(TMValueOrder) : TMValueOrder[j] = v

TMInst(body, v) == body[CHOOSE j \in 1..Len(body) : body[j].name = v]

LoopDependencyEdge(src, dst, operand) == [DFGEdge(src, dst, operand) EXCEPT !.kind = "LoopCarried"]

InitDataEdge(src, dst, operand) == [DFGEdge(src, dst, operand) EXCEPT !.kind = "Init"]

make_global_node(v) == DFGNode(v, TMValueID(v), "GlobalData", "global")

\* the node made for a value from outside of the loop
OutsideNode(v) ==
    IF v = "cst" THEN DFGNode(v, TMValueID(v), "Constant", "const") ELSE make_global_node(v)

is_node_exist(b, V) == \E m \in b.vtn : m[1] = V

\* make a node for each instruction in the kernel, from instruction j on
RECURSIVE TMAddCompNodes(_, _, _)
TMAddCompNodes(b, body, j) ==
    IF j > Len(body) THEN b
    ELSE TMAddCompNodes(AddValueNode(b, body[j].name,
                            DFGNode(body[j].name, TMValueID(body[j].name), "Compute", body[j].opcode)),
                        body, j + 1)

\* find edges coming from outside of the loop or constants: operand i
\* (counted from 1) of instruction j on
RECURSIVE TMAddOutsideNodes(_, _, _, _)
TMAddOutsideNodes(b, body, j, i) ==
    IF j > Len(body) THEN b
    ELSE IF i > Len(body[j].ops) THEN TMAddOutsideNodes(b, body, j + 1, 1)
    ELSE LET src == body[j].ops[i]
         IN TMAddOutsideNodes(IF src \in {"cst", "arg"} THEN AddValueNode(b, src, OutsideNode(src)) ELSE b,
                              body, j, i + 1)

\* value_to_node[phi] = self
SetValueNode(b, v, n) == [b EXCEPT !.vtn = { m \in @ : m[1] # v } \cup { <<v, n>> }]

\* the mutant of connect_to_loop_dep_node that makes no init edge
RECURSIVE connect_to_loop_dep_node_no_init(_, _, _, _)
connect_to_loop_dep_node_no_init(r, body, dep, i) ==
    LET I == TMInst(body, dep.def)
        self == value_to_node(r.b, dep.def)
    IN IF r.crash \/ i >= Len(I.ops) THEN r
       ELSE IF self = NoValue THEN [r EXCEPT !.crash = TRUE]
       ELSE LET operand == I.ops[i + 1]
            IN IF operand = dep.phi
               THEN connect_to_loop_dep_node_no_init(
                        [r EXCEPT !.b = SetValueNode(
                            [r.b EXCEPT !.g = connect(@, LoopDependencyEdge(self, self, i))],
                            dep.phi, self)],
                        body, dep, i + 1)
               ELSE IF value_to_node(r.b, operand) = NoValue THEN [r EXCEPT !.crash = TRUE]
               ELSE connect_to_loop_dep_node_no_init(
                        [r EXCEPT !.b.g = connect(@, DFGEdge(value_to_node(r.b, operand), self, i))],
                        body, dep, i + 1)

\* the lambda connect_to_loop_dep_node(dep, phi) from operand i (counted
\* from 0) on; r is [b, crash], crash being the dereference of a null
\* value_to_node entry
RECURSIVE connect_to_loop_dep_node(_, _, _, _)
connect_to_loop_dep_node(r, body, dep, i) ==
    LET I == TMInst(body, dep.def)
        self == value_to_node(r.b, dep.def)
    IN IF r.crash \/ i >= Len(I.ops) THEN r
       ELSE IF self = NoValue THEN [r EXCEPT !.crash = TRUE]
       ELSE LET operand == I.ops[i + 1]
            IN IF operand = dep.phi
               THEN LET b1 == SetValueNode(
                                [r.b EXCEPT !.g = connect(@, LoopDependencyEdge(self, self, i))],
                                dep.phi, self)
                        b2 == IF ~is_node_exist(b1, dep.init)
                              THEN AddValueNode(b1, dep.init, OutsideNode(dep.init))
                              ELSE b1
                        InitNode == value_to_node(b2, dep.init)
                    IN connect_to_loop_dep_node(
                          [r EXCEPT !.b = [b2 EXCEPT !.g = connect(@, InitDataEdge(InitNode, self, i))]],
                          body, dep, i + 1)
               ELSE IF value_to_node(r.b, operand) = NoValue THEN [r EXCEPT !.crash = TRUE]
               ELSE connect_to_loop_dep_node(
                        [r EXCEPT !.b.g = connect(@, DFGEdge(value_to_node(r.b, operand), self, i))],
                        body, dep, i + 1)

\* the loops over idv_phis and over lc_dep_phis, from dependency k on
RECURSIVE ConnectLoopDeps(_, _, _, _)
ConnectLoopDeps(r, body, deps, k) ==
    IF k > Len(deps) THEN r
    ELSE ConnectLoopDeps(connect_to_loop_dep_node(r, body, deps[k], 0), body, deps, k + 1)

\* MemoryLoopDependency::getLoad: the load the dependency was made for
getLoad(mem_dep) == mem_dep.use

\* is_memdep: memdep_map holds the load
is_memdep(mem_deps, load) == \E k \in 1..Len(mem_deps) : getLoad(mem_deps[k]) = load

\* memdep_map[load]: the last dependency entered for the load
memdep_map(mem_deps, load) ==
    mem_deps[CHOOSE k \in 1..Len(mem_deps) :
                /\ getLoad(mem_deps[k]) = load
                /\ \A m \in (k + 1)..Len(mem_deps) : getLoad(mem_deps[m]) # load]

\* the connections of a remaining instruction, from operand i (counted
\* from 0) on
RECURSIVE ConnectRemainingOperands(_, _, _, _, _)
ConnectRemainingOperands(r, body, mem_deps, inst, i) ==
    LET I == TMInst(body, inst)
        dst == value_to_node(r.b, inst)
    IN IF r.crash \/ i >= Len(I.ops) THEN r
       ELSE LET operand == I.ops[i + 1]
            IN IF is_memdep(mem_deps, operand)
               THEN IF value_to_node(r.b, operand) = NoValue THEN [r EXCEPT !.crash = TRUE]
                    ELSE LET b1 == [r.b EXCEPT !.g = connect(@, InitDataEdge(value_to_node(r.b, operand), dst, i))]
                             def == memdep_map(mem_deps, operand).def
                             b2 == IF is_node_exist(b1, def)
                                   THEN [b1 EXCEPT !.g = connect(@, LoopDependencyEdge(value_to_node(b1, def), dst, i))]
                                   ELSE b1
                         IN ConnectRemainingOperands([r EXCEPT !.b = b2], body, mem_deps, inst, i + 1)
               ELSE ConnectRemainingOperands(
                        IF is_node_exist(r.b, operand)
                        THEN [r EXCEPT !.b.g = connect(@, DFGEdge(value_to_node(r.b, operand), dst, i))]
                        ELSE r,
                        body, mem_deps, inst, i + 1)

\* make connections for remaining nodes: the instructions of kernel_inst,
\* from instruction j of the body on
RECURSIVE ConnectRemaining(_, _, _, _, _)
ConnectRemaining(r, body, mem_deps, kernel_inst, j) ==
    IF j > Len(body) THEN r
    ELSE ConnectRemaining(IF body[j].name \in kernel_inst
                          THEN ConnectRemainingOperands(r, body, mem_deps, body[j].name, 0)
                          ELSE r,
                          body, mem_deps, kernel_inst, j + 1)

MaxTMInst == 3

\* the values instruction j of a body may use
TMOperands(j) == { TMNames[k] : k \in 1..(j - 1) } \cup {"iv", "acc", "cst", "arg"}

TMInstChoices(j) ==
    { [name |-> TMNames[j], opcode |-> "add", ops |-> <<x, y>>] :
        x \in TMOperands(j), y \in {"acc", "cst"} }
    \cup { [name |-> TMNames[j], opcode |-> "load", ops |-> <<"arg">>] }
    \cup { [name |-> TMNames[j], opcode |-> "store", ops |-> <<x, "arg">>] :
             x \in TMOperands(j) \ {"iv", "cst", "arg"} }

NamesOf(body, opcode) == { body[j].name : j \in { k \in 1..Len(body) : body[k].opcode = opcode } }

\* the dependencies of a phi the LoopDependencyAnalysis may give: none, or
\* one whose def is a computation of the body
PhiDeps(body, phi, inits) ==
    {<<>>} \cup { <<[def |-> d, init |-> v, phi |-> phi, use |-> NoValue]>> :
                    d \in NamesOf(body, "add"), v \in inits }

MemDeps(body) ==
    {<<>>} \cup { <<[def |-> st, init |-> NoValue, phi |-> NoValue, use |-> l]>> :
                    st \in NamesOf(body, "store"), l \in NamesOf(body, "load") }

RECURSIVE IsTMBody(_, _)
IsTMBody(body, j) ==
    IF j > Len(body) THEN TRUE
    ELSE body[j] \in TMInstChoices(j) /\ IsTMBody(body, j + 1)

InitTMGraph ==
    /\ BaseIdle
    /\ AuxIdleExcept("tm")
    /\ \E n \in 0..MaxTMInst :
          \E body \in [1..n -> UNION { TMInstChoices(j) : j \in 1..MaxTMInst }] :
             /\ IsTMBody(body, 1)
             /\ \E idv \in PhiDeps(body, "iv", {"cst"}), lc \in PhiDeps(body, "acc", {"cst", "arg"}),
                   mem \in MemDeps(body) :
                   tm = [NoTMGraph EXCEPT !.phase = "nodes", !.body = body, !.idv_deps = idv,
                                          !.lc_deps = lc, !.mem_deps = mem,
                                          !.b = [g |-> NewCGRADFG, vtn |-> {}]]

\* the nodes of the instructions of the kernel, then those of the values
\* from outside of the loop
TMMakeNodes ==
    /\ tm.phase = "nodes"
    /\ tm' = [tm EXCEPT !.phase = "idv",
                        !.kernel_inst = { tm.body[j].name : j \in 1..Len(tm.body) },
                        !.b = TMAddOutsideNodes(TMAddCompNodes(tm.b, tm.body, 1), tm.body, 1, 1)]
    /\ UNCHANGED not_tm

\* make connection for induction variables
TMConnectInductionVars ==
    /\ tm.phase = "idv"
    /\ LET r == ConnectLoopDeps([b |-> tm.b, crash |-> FALSE], tm.body, tm.idv_deps, 1)
       IN tm' = [tm EXCEPT !.phase = IF r.crash THEN "crash" ELSE "lc",
                           !.b = r.b,
                           !.kernel_inst = @ \ { tm.idv_deps[k].def : k \in 1..Len(tm.idv_deps) }]
    /\ UNCHANGED not_tm

\* make connection for inter-loop dependencies
TMConnectLoopCarried ==
    /\ tm.phase = "lc"
    /\ LET r == ConnectLoopDeps([b |-> tm.b, crash |-> FALSE], tm.body, tm.lc_deps, 1)
       IN tm' = [tm EXCEPT !.phase = IF r.crash THEN "crash" ELSE "remaining",
                           !.b = r.b,
                           !.kernel_inst = @ \ { tm.lc_deps[k].def : k \in 1..Len(tm.lc_deps) }]
    /\ UNCHANGED not_tm

\* make connections for remaining nodes, then addGraph(G)
TMConnectRemaining ==
    /\ tm.phase = "remaining"
    /\ LET r == ConnectRemaining([b |-> tm.b, crash |-> FALSE], tm.body, tm.mem_deps,
                                 tm.kernel_inst, 1)
       IN tm' = [tm EXCEPT !.phase = IF r.crash THEN "crash" ELSE "added", !.b = r.b]
    /\ UNCHANGED not_tm

NextTMGraph ==
    TMMakeNodes \/ TMConnectInductionVars \/ TMConnectLoopCarried \/ TMConnectRemaining

SpecTMGraph == InitTMGraph /\ [][NextTMGraph]_vars

\* ------------------------------------- the export of a graph after the passes
\* DFGNode::setExtraInfo on the nodes of extra; CGRADFG::hasExtraInfo
hasExtraInfo(g, extra) == \E n \in Range(g.nodes) : n.val \in extra

\* CGRADFG::saveExtraInfo: the keys of the JSON object it writes
saveExtraInfo(g, extra) == { n.val : n \in { m \in Range(g.nodes) : m.val \in extra } }

\* the files the export step of DFGPassHandler::run leaves for one graph:
\* saveAsDotGraph writes the .dot file, and nothing else is written
ExportedFiles(g, extra) == <<[ext |-> "dot", keys |-> {}]>>

\* a pass sets extra_info on a node of the graph
SetExtraInfo ==
    /\ constructed
    /\ rn.phase = "idle"
    /\ \E v \in (NodeVals(G) \ {getRoot.val}) \ rn.extra : rn' = [rn EXCEPT !.extra = @ \cup {v}]
    /\ UNCHANGED not_rn

\* the body of the export loop of DFGPassHandler::run for graph G,
\* with cgra-dfg-plain set or not
ExportGraph ==
    /\ constructed
    /\ rn.phase = "idle"
    /\ \E OptDFGPlainNodeName \in BOOLEAN :
          /\ G' = IF OptDFGPlainNodeName THEN makeSequentialNodeID(G) ELSE G
          /\ rn' = [rn EXCEPT !.phase = IF OptDFGPlainNodeName THEN "plain" ELSE "exported",
                              !.written = ExportedFiles(G', rn.extra)]
    /\ UNCHANGED <<pipeline_vars, constructed, ag_vars, imap_vars, pb, si, hd, ld, tm, opt, ml, ph,
                   fl, nid>>

NextExport == (rn.phase = "idle" /\ NextGraph) \/ SetExtraInfo \/ ExportGraph

SpecExport == InitGraph /\ [][NextExport]_vars

\* -------------------------------------------------- key=value option arguments
\* the characters of an option argument
ArgChars == {"=", "k", "v"}

\* the option arguments given on the command line
Args == UNION { [1..n -> ArgChars] : n \in 0..MaxArgLen }

\* the tokens sregex_token_iterator(first, last, "=", -1) yields after a first
\* match: the text before each match, then the text after the last match when
\* it is not empty
RECURSIVE TokensFrom(_, _, _)
TokensFrom(s, from, i) ==
    IF i > Len(s) THEN (IF from <= Len(s) THEN <<SubSeq(s, from, Len(s))>> ELSE <<>>)
    ELSE IF s[i] = "=" THEN <<SubSeq(s, from, i - 1)>> \o TokensFrom(s, i + 1, i + 1)
    ELSE TokensFrom(s, from, i + 1)

\* sregex_token_iterator with submatch -1: the whole text when nothing matches
sregex_token_iterator(s) ==
    IF \A i \in 1..Len(s) : s[i] # "=" THEN <<s>> ELSE TokensFrom(s, 1, 1)

\* OptKeyValue::OptKeyValue(string keyvalue)
OptKeyValue(keyvalue) ==
    LET vec == sregex_token_iterator(keyvalue)
    IN IF Len(vec) # 2
       THEN [valid |-> FALSE, key |-> <<>>, value |-> <<>>]
       ELSE [valid |-> TRUE, key |-> vec[1], value |-> vec[2]]

InitOption ==
    /\ BaseIdle
    /\ AuxIdleExcept("opt")
    /\ \E Arg \in Args : opt = [NoOption EXCEPT !.phase = "given", !.Arg = Arg]

\* parser<OptKeyValue>::parse: returns true on error
ParseOption ==
    /\ opt.phase = "given"
    /\ LET Value == OptKeyValue(opt.Arg)
       IN opt' = [opt EXCEPT !.phase = "parsed", !.valid = Value.valid, !.key = Value.key,
                             !.value = Value.value, !.error = ~Value.valid]
    /\ UNCHANGED not_opt

NextOption == ParseOption

SpecOption == InitOption /\ [][NextOption]_vars

\* ------------------------------------------------- loading the CGRA model
\* CGRAModel::CategoryMap, CondStyleMap and InterLoopDepMap
CategoryMap == [k \in {"time-multiplexed", "decoupled"} |->
                    IF k = "decoupled" THEN "Decoupled" ELSE "TimeMultiplexed"]

CondStyleMap == [k \in {"MuxInst", "TriState"} |-> k]

InterLoopDepMap == [k \in {"generic", "BackwardInst"} |->
                        IF k = "generic" THEN "Generic" ELSE "BackwardInst"]

\* containsValidData
containsValidData(settingMap, val) == val \in DOMAIN settingMap

\* get_setting_values: references to the keys of its by-value copy of the map
get_setting_values(settingMap) ==
    CHOOSE vec \in [1..Cardinality(DOMAIN settingMap) -> DOMAIN settingMap] :
        Range(vec) = DOMAIN settingMap

\* a ModelError; valid_values holds StringRefs, the other texts are owned or literal
ModelError(errtype, key, val, list, region) ==
    [errtype |-> errtype, error_key |-> key, error_val |-> val, valid_values |-> list,
     region |-> region]

NoModelError == ModelError("none", "", "", <<>>, "")

\* what a parsing step returns: a value or an error
Parsed(value) == [ok |-> TRUE, value |-> value, err |-> NoModelError]

ParseError(err) == [ok |-> FALSE, value |-> "none", err |-> err]

\* a JSON value under a key: absent, a string, or of another type
JsonMissing == [t |-> "missing", s |-> ""]

JsonString(str) == [t |-> "string", s |-> str]

JsonNumber == [t |-> "number", s |-> ""]

\* getCategory
getCategory(category) ==
    IF category.t = "missing" THEN ParseError(ModelError("MissingKey", "category", "", <<>>, ""))
    ELSE IF category.t # "string"
    THEN ParseError(ModelError("InvalidDataType", "category", "", <<>>, ""))
    ELSE IF containsValidData(CategoryMap, category.s) THEN Parsed(CategoryMap[category.s])
    ELSE ParseError(ModelError("InvalidValue", "category", category.s,
                               get_setting_values(CategoryMap), ""))

\* getOption for an option given as absent, as not allowed, or as allowed with a type
getOption(key_str, option, settingMap) ==
    IF option.t = "missing" THEN ParseError(ModelError("MissingKey", key_str, "", <<>>, ""))
    ELSE IF option.s = "" THEN Parsed("No")
    ELSE IF containsValidData(settingMap, option.s) THEN Parsed(settingMap[option.s])
    ELSE ParseError(ModelError("InvalidValue", "type", option.s,
                               get_setting_values(settingMap), key_str))

\* parseCGRASetting on a file that opens and parses as a JSON object; rest is
\* what the keys after the three common settings lead to
parseCGRASetting(cfg) ==
    LET cgra_cat == getCategory(cfg.category)
        cond_type == getOption("conditional", cfg.conditional, CondStyleMap)
        ild_type == getOption("inter-loop-dependency", cfg.ild, InterLoopDepMap)
    IN IF ~cgra_cat.ok THEN [r |-> cgra_cat, examined |-> <<"category">>]
       ELSE IF ~cond_type.ok THEN [r |-> cond_type, examined |-> <<"category", "conditional">>]
       ELSE IF ~ild_type.ok
       THEN [r |-> ild_type, examined |-> <<"category", "conditional", "inter-loop-dependency">>]
       ELSE IF ~cfg.rest
       THEN [r |-> ParseError(ModelError("MissingKey", "rest", "", <<>>, "")),
             examined |-> <<"category", "conditional", "inter-loop-dependency", "rest">>]
       ELSE [r |-> cgra_cat,
             examined |-> <<"category", "conditional", "inter-loop-dependency", "rest">>]

\* ModelError::log: the texts it prints. The keys valid_values refers to were
\* freed with the copy of the map in get_setting_values, so each reads either
\* as it was or as whatever the memory holds by then
ModelError_log(err) ==
    { [errtype |-> err.errtype, error_key |-> err.error_key, error_val |-> err.error_val,
       region |-> err.region, valid_values |-> read] :
         read \in { v \in [1..Len(err.valid_values) -> Range(err.valid_values) \cup {"freed"}] :
                       \A k \in 1..Len(v) : v[k] \in {err.valid_values[k], "freed"} } }

\* the configurations given to the compiler
CategoryValues ==
    {JsonMissing, JsonNumber} \cup
    { JsonString(str) : str \in {"decoupled", "time-multiplexed", "hybrid", ""} }

OptionValues(settingMap) ==
    {JsonMissing} \cup { JsonString(str) : str \in DOMAIN settingMap \cup {"", "other"} }

InitModelLoad ==
    /\ BaseIdle
    /\ AuxIdleExcept("ml")
    /\ \E category \in CategoryValues, conditional \in OptionValues(CondStyleMap),
          ild \in OptionValues(InterLoopDepMap), rest \in BOOLEAN :
          ml = [NoModelLoad EXCEPT !.phase = "start",
                                   !.cfg = [category |-> category, conditional |-> conditional,
                                            ild |-> ild, rest |-> rest]]

\* ModelManagerPass::run: ExitOnError logs the error and exits
ModelManagerPass_run ==
    /\ ml.phase = "start"
    /\ LET ErrorOrModel == parseCGRASetting(ml.cfg)
       IN IF ~ErrorOrModel.r.ok
          THEN \E msg \in ModelError_log(ErrorOrModel.r.err) :
                  ml' = [ml EXCEPT !.phase = "exit", !.examined = ErrorOrModel.examined,
                                   !.log = <<msg>>]
          ELSE ml' = [ml EXCEPT !.phase = "loaded", !.examined = ErrorOrModel.examined,
                                !.model = ErrorOrModel.r.value]
    /\ UNCHANGED not_ml

\* VerifyModulePass::run with the model of the ModelManager
VerifyModulePass_run ==
    /\ ml.phase = "loaded"
    /\ ~ml.verified
    /\ ml' = [ml EXCEPT !.verified = TRUE]
    /\ UNCHANGED not_ml

\* DFGPassHandler::run with the model of the ModelManager
DFGPassHandler_run ==
    /\ ml.phase = "loaded"
    /\ ml.verified
    /\ ~ml.exported
    /\ ml' = [ml EXCEPT !.exported = TRUE]
    /\ UNCHANGED not_ml

NextModelLoad == ModelManagerPass_run \/ VerifyModulePass_run \/ DFGPassHandler_run

SpecModelLoad == InitModelLoad /\ [][NextModelLoad]_vars

\* --------------------------------------- loop-carried dependency via register
\* the incoming values of a phi: whether the incoming block is a block of
\* the loop, and whether the value is an instruction
Incomings == [in_loop : BOOLEAN, inst : BOOLEAN]

\* the loop over the incoming values of a phi, from incoming i (counted from
\* 1) on; st is [init, carried, abort], init and carried being the index of
\* the incoming value they point to, 0 for a null pointer
RECURSIVE ScanIncoming(_, _, _, _)
ScanIncoming(incoming, i, st, NDEBUG) ==
    IF i > Len(incoming) \/ st.abort THEN st
    ELSE IF incoming[i].in_loop
         THEN IF st.carried # 0 THEN st
              ELSE ScanIncoming(incoming, i + 1,
                                [st EXCEPT !.carried = IF incoming[i].inst THEN i ELSE 0], NDEBUG)
         ELSE IF st.init # 0 /\ ~NDEBUG THEN [st EXCEPT !.abort = TRUE]
              ELSE ScanIncoming(incoming, i + 1, [st EXCEPT !.init = i], NDEBUG)

\* SimpleLoopDependency(def, init, phi): distance 1
SimpleLoopDependency(def, init) == [kind |-> "Simple", def |-> def, init |-> init, distance |-> 1]

\* the body of the loop over the phis of a block, for one phi
PhiDependency(indvar, incoming, NDEBUG) ==
    IF indvar THEN [deps |-> <<>>, abort |-> FALSE]
    ELSE LET st == ScanIncoming(incoming, 1, [init |-> 0, carried |-> 0, abort |-> FALSE], NDEBUG)
         IN IF st.abort THEN [deps |-> <<>>, abort |-> TRUE]
            ELSE IF st.init # 0 /\ st.carried # 0
            THEN [deps |-> <<SimpleLoopDependency(st.carried, st.init)>>, abort |-> FALSE]
            ELSE [deps |-> <<>>, abort |-> FALSE]

InitPhi ==
    /\ BaseIdle
    /\ AuxIdleExcept("ph")
    /\ \E n \in 1..MaxIncoming, indvar \in BOOLEAN :
          \E incoming \in [1..n -> Incomings] :
              ph = [NoPhi EXCEPT !.phase = "phi", !.indvar = indvar, !.incoming = incoming]

\* the phi is visited, in a build with assertions or in one without
VisitPhi ==
    /\ ph.phase = "phi"
    /\ \E NDEBUG \in BOOLEAN :
          LET r == PhiDependency(ph.indvar, ph.incoming, NDEBUG)
          IN ph' = [ph EXCEPT !.phase = IF r.abort THEN "abort" ELSE "visited", !.deps = r.deps]
    /\ UNCHANGED not_ph

NextPhi == VisitPhi

SpecPhi == InitPhi /\ [][NextPhi]_vars

\* ------------------------------- the search of the decoupling, step by step
\* An instruction of the innermost loop is [kind, ops]: a phi, a load that
\* is a memory load ("load"), a load of scheduling information ("sload"), a
\* computation or a store, and the instructions of the loop it uses.
FloodKinds == {"phi", "load", "sload", "add", "store"}

\* the instructions that instruction j may use: a value is defined before
\* its uses, but for the uses by a phi; a store defines no value
FloodOperands(kinds, j) ==
    LET allowed == { NameOf(k) : k \in { m \in 1..Len(kinds) :
                        /\ kinds[m] # "store"
                        /\ kinds[j] = "phi" \/ m < j \/ kinds[m] = "phi" } }
        most == IF kinds[j] = "sload" THEN 0 ELSE IF kinds[j] \in {"phi", "load"} THEN 1 ELSE 2
    IN { o \in SUBSET allowed : Cardinality(o) <= most }

\* the loop bodies of the first j instructions with the given kinds
RECURSIVE FloodBodies(_, _)
FloodBodies(kinds, j) ==
    IF j = 0 THEN {<<>>}
    ELSE { Append(body, [kind |-> kinds[j], ops |-> o]) :
             body \in FloodBodies(kinds, j - 1), o \in FloodOperands(kinds, j) }

\* v->users(), in the order of the instructions
FloodUsers(body, v) == SelectIdx([j \in 1..Len(body) |-> NameOf(j)],
                                 { j \in 1..Len(body) : v \in body[j].ops }, 1)

\* the loop over the successors without the test of traversed
RECURSIVE QueueSuccessors_all(_, _, _)
QueueSuccessors_all(st, sucs, k) ==
    IF k > Len(sucs) THEN st
    ELSE LET suc == sucs[k]
         IN IF st.body[IndexOf(suc)].kind \in {"load", "sload"}
            THEN [st EXCEPT !.phase = "error"]
            ELSE QueueSuccessors_all([st EXCEPT !.fifo = Append(@, suc),
                                                !.pushed = Append(@, suc),
                                                !.traversed = @ \cup {suc}], sucs, k + 1)

\* the loop over the successors of v: the search state after the users from
\* index k on have been looked at
RECURSIVE QueueSuccessors(_, _, _)
QueueSuccessors(st, sucs, k) ==
    IF k > Len(sucs) THEN st
    ELSE LET suc == sucs[k]
         IN IF st.body[IndexOf(suc)].kind \in {"load", "sload"}
            THEN [st EXCEPT !.phase = "error"]
            ELSE IF suc \notin st.traversed
                 THEN QueueSuccessors([st EXCEPT !.fifo = Append(@, suc),
                                                 !.pushed = Append(@, suc),
                                                 !.traversed = @ \cup {suc}], sucs, k + 1)
                 ELSE QueueSuccessors(st, sucs, k + 1)

InitFlood ==
    /\ BaseIdle
    /\ AuxIdleExcept("fl")
    /\ \E kinds \in [1..MaxFloodInst -> FloodKinds] :
          \E body \in FloodBodies(kinds, MaxFloodInst) :
              fl = [NoFlood EXCEPT !.phase = "start", !.body = body]

\* push all mem load inst
FloodStart ==
    /\ fl.phase = "start"
    /\ LET seeds == SelectIdx([j \in 1..Len(fl.body) |-> NameOf(j)],
                              { j \in 1..Len(fl.body) : fl.body[j].kind = "load" }, 1)
       IN fl' = [fl EXCEPT !.phase = "search", !.fifo = seeds, !.pushed = seeds]
    /\ UNCHANGED not_fl

\* one iteration of the while loop
FloodIterate ==
    /\ fl.phase = "search"
    /\ fl.fifo # <<>>
    /\ LET v == Head(fl.fifo)
           popped == [fl EXCEPT !.fifo = Tail(@)]
       IN IF fl.body[IndexOf(v)].kind # "store"
          THEN fl' = QueueSuccessors([popped EXCEPT !.expanded = @ \cup {v}],
                                     FloodUsers(fl.body, v), 1)
          ELSE fl' = popped
    /\ UNCHANGED not_fl

\* the queue is empty: the search is over
FloodEnd ==
    /\ fl.phase = "search"
    /\ fl.fifo = <<>>
    /\ fl' = [fl EXCEPT !.phase = "done"]
    /\ UNCHANGED not_fl

NextFlood == FloodStart \/ FloodIterate \/ FloodEnd

SpecFlood == InitFlood /\ [][NextFlood]_vars /\ WF_vars(NextFlood)

\* ------------------------------------------ node IDs from value addresses
\* A pointer of 64 bits is [hi, mid, lo]: its upper 32 bits and the two
\* halves of 16 bits of its lower 32 bits.
Pointers == [hi : 0..MaxHighWord, mid : {0, 2^15}, lo : {16, 32}]

\* (int)(std::uintptr_t)(val): the lower 32 bits, as a signed integer
IntOfPointer(val) ==
    IF val.mid >= 2^15 THEN (val.mid - 2^16) * 2^16 + val.lo ELSE val.mid * 2^16 + val.lo

\* DFGNode(NodeKind kind, Value *val) for the value named v at address val
DFGNodeOfValue(kind, v, val) == DFGNode(v, IntOfPointer(val), kind, "op")

\* the IR values a node is made for
NodeValues == { NameOf(j) : j \in 1..MaxNodes }

\* IR values live at different addresses
InitNodeID ==
    /\ BaseIdle
    /\ AuxIdleExcept("nid")
    /\ \E addr \in [NodeValues -> Pointers] :
          /\ \A v, w \in NodeValues : addr[v] = addr[w] => v = w
          /\ nid = [NoNodeID EXCEPT !.phase = "built", !.addr = addr, !.g = NewCGRADFG]

\* a node is made for a value that has none yet and is added: CGRADFG::addNode
AddNodeOfValue ==
    /\ nid.phase \in {"built", "added"}
    /\ \E v \in NodeValues \ NodeVals(nid.g) :
          LET N == DFGNodeOfValue("Compute", v, nid.addr[v])
          IN nid' = [nid EXCEPT !.phase = "added", !.last = v,
                                !.ret = AddNodeResult(nid.g, N), !.g = addNode(nid.g, N)]
    /\ UNCHANGED not_nid

NextNodeID == AddNodeOfValue

SpecNodeID == InitNodeID /\ [][NextNodeID]_vars

\* ------------------------------------------------------------------ claims
\* C1: a loop is registered as a valid kernel only if every sub-check
\* passed: its memory-access decoupling succeeded, its inter-loop-dependency
\* check passed, every computation instruction is supported and every
\* memory access is AG-compatible.
C1_RegisteredOnlyIfAllPassed ==
    \A k \in 1..Len(valid_kernels) :
        /\ ~Decouple(func[valid_kernels[k]].body).err
        /\ lvr[valid_kernels[k]].InterLoopDep
        /\ lvr[valid_kernels[k]].InstAvailability
        /\ lvr[valid_kernels[k]].AGCompatibility

\* C2: the virtual root has no incoming edge and has an outgoing edge to
\* exactly those non-root nodes that have no non-root predecessor.
C2_VirtualRootEdges ==
    constructed =>
        /\ \A e \in Range(G.edges) : e.dst # getRoot.val
        /\ \A v \in NodeVals(G) \ {getRoot.val} :
              HasRootEdge(G, v) <=> NonRootPreds(G, v) = {}

\* the edges of graph g that enter node v from a node other than the root
InEdges(g, v) == { e \in Range(g.edges) : e.dst = v /\ e.src # getRoot.val }

\* C3: in every graph built on the decoupled path each Compute node and
\* each MemStore node has, for every data-operand index i of its
\* instruction, an incoming Normal edge tagged i from the node of that
\* operand (for an operand that is a skipped cast, the node of the invariant
\* behind the cast), and has no edge for the excluded last operand.
C3_OperandEdges ==
    \A k \in 1..Len(graphs) :
        \A n \in Range(graphs[k].g.nodes) :
            n.kind \in {"Compute", "MemStore"} =>
                LET body == func[graphs[k].loop].body
                    ins == InstOf(body, n.val)
                    data == TrackedOperands(body, n.val)
                IN /\ \A i \in 0..(data - 1) :
                         \E e \in InEdges(graphs[k].g, n.val) :
                             /\ e.operand = i
                             /\ e.kind = "Normal"
                             /\ e.src = SkipLast(ins.ops[i + 1])
                   /\ \A e \in InEdges(graphs[k].g, n.val) : e.operand < data

\* the nodes reachable from node v along the edges of g
RECURSIVE ReachFrom(_, _)
ReachFrom(g, S) ==
    LET next == S \cup { e.dst : e \in { x \in Range(g.edges) : x.src \in S } }
    IN IF next = S THEN S ELSE ReachFrom(g, next)

\* C4: in every graph built, every non-root node whose only predecessor is
\* the virtual root has a directed path to at least one MemStore node.
C4_SourcesReachStore ==
    \A k \in 1..Len(graphs) :
        \A n \in Range(graphs[k].g.nodes) :
            (n.val # getRoot.val /\ NonRootPreds(graphs[k].g, n.val) = {} /\ HasRootEdge(graphs[k].g, n.val)) =>
                \E m \in Range(graphs[k].g.nodes) :
                    m.kind = "MemStore" /\ m.val \in ReachFrom(graphs[k].g, {n.val})

\* C5: whenever the decoupling of a verified loop succeeds, the reported
\* loads and stores are disjoint, the computation is disjoint from both, and
\* every data operand of every reported computation or store instruction is,
\* possibly behind a skipped cast, a reported load, a constant, a reported
\* loop invariant or a reported computation instruction.
C5_DecoupledSets ==
    \A k \in 1..Len(lvr) :
        LET body == func[k].body
            DA == Decouple(body)
        IN ~DA.err =>
            /\ DA.loads \cap DA.stores = {}
            /\ DA.comp \cap (DA.loads \cup DA.stores) = {}
            /\ \A u \in DA.comp \cup DA.stores :
                  \A i \in 1..TrackedOperands(body, u) :
                      \/ IsConstant(InstOf(body, u).ops[i])
                      \/ SkipLast(InstOf(body, u).ops[i]) \in DA.loads \cup DA.invars \cup DA.comp

\* C6: the decoupling of a verified loop whose body contains no store
\* instruction fails with the "unreachable store" error.
C6_NoStoreFails ==
    \A k \in 1..Len(lvr) :
        mem_store(func[k].body) = {} =>
            /\ Decouple(func[k].body).err
            /\ Decouple(func[k].body).cause = "Unreachable store exists"

\* the instructions reached from the seed loads along use-edges
RECURSIVE UseClosure(_, _)
UseClosure(body, S) ==
    LET next == S \cup UNION { Users(body, v) : v \in S }
    IN IF next = S THEN S ELSE UseClosure(body, next)

ReachedFromSeeds(body) == UseClosure(body, UNION { Users(body, v) : v \in mem_load(body) })

LoopDependentLoads(body) ==
    Decouple(body).err /\ Decouple(body).cause = "Loop dependent mem loads are included"

\* C7 (as stated): the flood of a verified loop fails with the
\* loop-dependent-loads error exactly when it reaches, along use-edges from
\* a seed load, a load that is not a seed.
C7_FailsOnNonSeedLoadOnly ==
    \A k \in 1..Len(lvr) :
        LoopDependentLoads(func[k].body) <=>
            \E v \in ReachedFromSeeds(func[k].body) :
                IsLoadInst(func[k].body, v) /\ v \notin mem_load(func[k].body)

\* C7 (amended): the flood of a verified loop fails with the
\* loop-dependent-loads error exactly when it reaches, along use-edges from
\* a seed load, a load instruction, whether that load is a seed or not.
C7_FailsOnAnyLoad ==
    \A k \in 1..Len(lvr) :
        LoopDependentLoads(func[k].body) <=>
            \E v \in ReachedFromSeeds(func[k].body) : IsLoadInst(func[k].body, v)

\* a verified loop whose flood failed although every load it reached is a seed
C7_SeedLoadReached ==
    \E k \in 1..Len(lvr) :
        /\ LoopDependentLoads(func[k].body)
        /\ \A v \in ReachedFromSeeds(func[k].body) :
              IsLoadInst(func[k].body, v) => v \in mem_load(func[k].body)

\* the configuration added for instruction I
ConfigOf(result, I) == (CHOOSE c \in result.config : c[1] = I)[2]

\* an address that is a nest of AddRecs with constant steps over a base
RECURSIVE IsAffineNest(_)
IsAffineNest(S) ==
    IF S.t = "AddRec" THEN S.ops[2].t = "Constant" /\ IsAffineNest(S.ops[1])
    ELSE S \in AddressBases \ {SCEVOther}

\* C8: with max_nested_level = k loaded, an access whose address is an
\* AddRec nest more than k levels deep is marked invalid and its kernel
\* fails AG verification; an access of at most k levels with constant steps
\* is accepted.
C8_DeepNestsRejected ==
    ag_state = "verified" =>
        \A i \in 1..Len(ag_kernel) :
            /\ NestDepth(ag_kernel[i]) > max_nests =>
                  (~ConfigOf(ag_result, NameOf(i)).valid /\ ag_result.isViolate)
            /\ (NestDepth(ag_kernel[i]) <= max_nests /\ IsAffineNest(ag_kernel[i])) =>
                  ConfigOf(ag_result, NameOf(i)).valid

\* every load and every store of a loop body
MemoryAccesses(body) == { v \in InstSet(body) : InstOf(body, v).kind \in {"load", "store"} }

\* C9 (as stated): a verified kernel passes Affine AG verification if and
\* only if every load and every store of the loop has been given a
\* configuration and that configuration is valid.
C9_PassIffAllAccessesValid ==
    \A k \in 1..Len(lvr) :
        lvr[k].AGCompatibility <=>
            \A I \in MemoryAccesses(func[k].body) :
                \E c \in AGRun(func[k].body, Decouple(func[k].body)).config : c[1] = I /\ c[2].valid

\* C9 (amended): a verified kernel passes Affine AG verification if and
\* only if every configuration given is valid, and configurations are given
\* to exactly the loads and stores that a successful decoupling reports, to
\* none when the decoupling failed.
C9_PassIffGivenConfigsValid ==
    \A k \in 1..Len(lvr) :
        LET DA == Decouple(func[k].body)
            R == AGRun(func[k].body, DA)
        IN /\ lvr[k].AGCompatibility <=> \A c \in R.config : c[2].valid
           /\ { c[1] : c \in R.config } = IF DA.err THEN {} ELSE DA.loads \cup DA.stores

\* a verified kernel that passes AG verification although one of its loads
\* or stores has no configuration, and one that fails it
C9_PassWithoutConfig ==
    /\ \E k \in 1..Len(lvr) :
          /\ lvr[k].AGCompatibility
          /\ \E I \in MemoryAccesses(func[k].body) :
                \A c \in AGRun(func[k].body, Decouple(func[k].body)).config : c[1] # I
    /\ \E k \in 1..Len(lvr) : ~lvr[k].AGCompatibility

\* the opcode class of entry e is that of instruction I
SameOpcodeClass(e, I) ==
    \/ e.cls = "BinaryOp" /\ I.opcode \in BinaryOps /\ e.ops = I.opcode
    \/ e.cls = "CompOp" /\ I.opcode = "icmp" /\ e.isInteger
    \/ e.cls = "CompOp" /\ I.opcode = "fcmp" /\ ~e.isInteger
    \/ e.cls = "MemoryOp" /\ I.opcode \in {"load", "store"} /\ e.kind = I.opcode
    \/ e.cls = "Custom" /\ I.opcode = "call" /\ I.callee = e.opcode_str

\* C10: find(I) returns the earliest-inserted entry still in the map whose
\* opcode class is that of I and whose MapCondition holds for I, and returns
\* no entry exactly when there is none.
C10_FindFirstMatching ==
    ret.op = "find" =>
        LET ok(i) == SameOpcodeClass(imap.entries[i], ret.I)
                     /\ MapConditionMatch(imap.entries[i].map_cond, ret.I)
        IN IF \E i \in 1..Len(imap.entries) : ok(i)
           THEN ok(ret.value) /\ \A j \in 1..(ret.value - 1) : ~ok(j)
           ELSE ret.value = 0

\* the positions of the entries of opcode that are default (dflt) or
\* conditional (~dflt)
EntriesOf(opcode, dflt) ==
    { i \in 1..Len(imap.entries) :
        imap.entries[i].opcode_str = opcode /\ imap.entries[i].owns_cond = dflt }

\* C11: after any sequence of add_generic_inst, add_custom_inst and
\* add_map_entry calls the entry list holds at most one default entry per
\* opcode, none for an opcode that has received a conditional entry (also
\* when that opcode is added as a generic or custom instruction again), and
\* the conditional entries of each opcode in the order they were added.
C11_DefaultsAndOrder ==
    \A opcode \in OpcodeNames :
        /\ Cardinality(EntriesOf(opcode, TRUE)) <= 1
        /\ (EntriesOf(opcode, FALSE) # {} => EntriesOf(opcode, TRUE) = {})
        /\ \A i, j \in EntriesOf(opcode, FALSE) :
              i < j => imap.entries[i].id < imap.entries[j].id

\* a conditional entry has displaced the default entry of add, and add was
\* then added as a generic instruction again (the only call of
\* add_generic_inst that succeeds without making an entry)
C11_DefaultDisplaced ==
    /\ ret.op = "add_generic_inst"
    /\ ret.value = 0
    /\ Len(imap.entries) = 1
    /\ EntriesOf("add", FALSE) = {1}
    /\ imap.next_id = 3

\* operand i (counted from 0) of I is the constant integer n
OperandIs(I, i, n) == i < Len(I.ops) /\ I.ops[i + 1].isConst /\ I.ops[i + 1].n = n

\* C12: an entry with an lhs constant constraint matches an instruction
\* only if operand 0 of the instruction is that constant, an entry with an
\* rhs constraint only if operand 1 is that constant; an entry of the model
\* file that gives both gets a warning (printed in verbose runs) and only
\* its lhs constraint.
C12_ConstOperandSide ==
    /\ (ret.op = "find" /\ ret.value # 0) =>
          LET c == imap.entries[ret.value].map_cond
          IN /\ (~c.anyLHS => OperandIs(ret.I, 0, c.use_int))
             /\ (~c.anyRHS => OperandIs(ret.I, 1, c.use_int))
    /\ \A json_obj \in MapObjects, OptVerbose \in BOOLEAN :
          (json_obj.lhs.present /\ json_obj.rhs.present) =>
              /\ (OptVerbose => createMapCondition(json_obj, OptVerbose).warned)
              /\ createMapCondition(json_obj, OptVerbose).cond
                    = createMapCondition([json_obj EXCEPT !.rhs = Absent], OptVerbose).cond

\* the callbacks of callback_list that answer to name
Claimers(name) == { j \in 1..Len(pb.callback_list) : name \in pb.callback_list[j].claims }

\* C13: parsePassPipeline appends exactly one pass per requested name, in
\* the order of the names: the pass of the first callback, in the order of
\* registration in callback_list, that claims the name; later callbacks add
\* nothing for that name.
C13_OnePassPerName ==
    pb.phase \in {"ready", "ran"} =>
        /\ Len(pb.pipeline) = Len(pb.texts)
        /\ \A i \in 1..Len(pb.pipeline) :
              /\ pb.pipeline[i].name = pb.texts[i]
              /\ pb.pipeline[i].callback \in Claimers(pb.texts[i])
              /\ \A j \in Claimers(pb.texts[i]) : pb.pipeline[i].callback <= j

\* the names of the pipeline text that no registered callback claims
Unclaimed == { i \in 1..Len(pb.texts) : Claimers(pb.texts[i]) = {} }

\* C14: if a requested pass name is claimed by no registered callback, or
\* a configured plugin cannot be loaded or does not export the factory
\* symbol, construction ends in a fatal error: the names after the first
\* unclaimed one are not processed and no DFG pass is run.
C14_FatalConstruction ==
    /\ (pb.phase \notin {"idle", "start"}
        /\ \E i \in 1..Len(pb.plugins) : ~pb.plugins[i].loads \/ ~pb.plugins[i].exports)
          => pb.phase = "fatal"
    /\ (pb.phase \in {"ready", "ran"}) => Unclaimed = {}
    /\ (pb.phase = "fatal" /\ Unclaimed # {}) =>
          \A p \in Range(pb.pipeline) :
              \E i \in 1..Len(pb.texts) :
                  pb.texts[i] = p.name /\ \A u \in Unclaimed : i < u
    /\ pb.phase = "fatal" => (pb.invoked = <<>> /\ pb.graph = <<>>)

\* C15: DFGPassManager::run invokes every pass of the pipeline exactly
\* once, in the order the passes were added, and returns true if and only
\* if at least one pass reported a change; with an empty pipeline it
\* returns false and leaves the graph as it was.
C15_RunsEveryPassOnce ==
    pb.phase = "ran" =>
        /\ pb.invoked = [i \in 1..Len(pb.pipeline) |-> i]
        /\ pb.changed <=> (pb.graph # <<>>)
        /\ pb.pipeline = <<>> => (~pb.changed /\ pb.graph = <<>>)

\* a pipeline of two passes has run, the first reported a change and the
\* second did not
C15_FirstPassChanged ==
    /\ pb.phase = "ran"
    /\ Len(pb.pipeline) = 2
    /\ pb.invoked = <<1, 2>>
    /\ pb.graph = <<1>>
    /\ pb.changed

\* a function in which every call is direct and none calls a function whose
\* name starts with __kmpc_for_static_init
NoInitCall ==
    \A i \in 1..Len(si.calls) :
        /\ si.calls[i].callee # <<>>
        /\ ~startswith(si.calls[i].callee, KmpcForStaticInit)

\* C16: for a function with no call to __kmpc_for_static_init* the schedule
\* analysis yields an invalid ScheduleInfo and the run continues without a
\* fatal error: the verifier goes on to verify and decouple the loops, and
\* no load is left out as schedule bookkeeping.
C16_NoScheduleContinues ==
    (NoInitCall /\ si.phase \notin {"idle", "start"}) =>
        /\ ~si.valid
        /\ si.phase # "fatal"
        /\ si.excluded = {}

\* the graphs whose file has been written
Exported == { hd.log[i].g : i \in { j \in 1..Len(hd.log) : hd.log[j].ev = "export" } }

\* C17: when writing the graph file of one kernel fails, only that kernel's
\* output is lost: the run is not aborted and comes to its end, and every
\* graph whose file can be written is still optimised and exported.
C17_WriteFailureLosesOneGraph ==
    hd.phase \in {"done", "fatal"} =>
        /\ hd.phase = "done"
        /\ \A i \in 1..Len(hd.graph_list) :
              saveAsDotGraph(hd.graph_list[i], hd.unwritable) => hd.graph_list[i] \in Exported

\* the graphs in kernel-processing order: the functions in the order of
\* kernel_info.kernels(), the loops of each in the order of
\* verify_result.kernels()
RECURSIVE ProcessingOrder(_, _)
ProcessingOrder(kernels, f) ==
    IF f > Len(kernels) THEN <<>>
    ELSE [i \in 1..Len(kernels[f]) |-> <<f, kernels[f][i]>>] \o ProcessingOrder(kernels, f + 1)

\* C18: graphs are created, optimised and exported in kernel-processing
\* order, and for each graph every pass of the pipeline runs on it, in
\* pipeline order, before it is exported and before anything is done with
\* the next graph.
C18_ExportInProcessingOrder ==
    LET order == ProcessingOrder(hd.kernels, 1)
        per == Len(hd.pipeline) + 1
    IN /\ Len(hd.graph_list) <= Len(order)
       /\ hd.graph_list = SubSeq(order, 1, Len(hd.graph_list))
       /\ hd.phase \in {"export", "done", "fatal"} => hd.graph_list = order
       /\ \A i \in 1..Len(hd.log) :
             LET k == ((i - 1) \div per) + 1
                 j == ((i - 1) % per) + 1
             IN /\ k <= Len(order)
                /\ hd.log[i].g = order[k]
                /\ IF j = per THEN hd.log[i].ev = "export"
                   ELSE hd.log[i].ev = "pass" /\ hd.log[i].n = j
       /\ hd.phase = "done" => Len(hd.log) = per * Len(order)

\* a run over two functions, the second with two loops verified in the
\* order 2, 1, and a pipeline of two passes, has come to its end
C18_ThreeGraphsExported ==
    /\ hd.phase = "done"
    /\ hd.kernels = << <<1>>, <<2, 1>> >>
    /\ Len(hd.pipeline) = 2
    /\ Len(hd.log) = 9

\* C19: every Memory dependency recorded by the loop-dependency analysis
\* has distance >= 1, whatever the backward store/load pairs with a
\* constant pointer difference and whatever the distance threshold.
C19_MemoryDistanceAtLeastOne ==
    \A i \in 1..Len(ld.mem_deps) : ld.mem_deps[i].distance >= 1

\* the edges of kind k of the graph under construction
TMEdges(k) == { e \in Range(tm.b.g.edges) : e.kind = k }

\* C20: in a graph built on the time-multiplexed path, every LoopCarried
\* edge into a node at operand i, whether it comes from an induction
\* variable, a register-carried or a memory-carried dependency, has an
\* Init edge into the same node at the same operand i.
C20_LoopCarriedHasInit ==
    tm.phase \in {"lc", "remaining", "added"} =>
        \A e \in TMEdges("LoopCarried") :
            \E x \in TMEdges("Init") : x.dst = e.dst /\ x.operand = e.operand

\* a graph has been added that holds the LoopCarried edge of a phi (the
\* defining instruction onto itself) and that of a memory dependency (from
\* the store to a user of the load)
C20_PhiAndMemoryCarried ==
    /\ tm.phase = "added"
    /\ Len(tm.mem_deps) = 1
    /\ \E d \in Range(tm.idv_deps) \cup Range(tm.lc_deps) :
          \E e \in TMEdges("LoopCarried") : e.dst = d.def /\ e.src = d.def
    /\ \E e \in TMEdges("LoopCarried") : e.src = tm.mem_deps[1].def

\* the edges of graph g into node dst at operand i, of kind k, from node src
EdgeOfKind(g, k, src, dst, i) ==
    \E e \in Range(g.edges) : e.kind = k /\ e.src = src /\ e.dst = dst /\ e.operand = i

\* C21: under a model with inter_loop_dep = BackwardInst, the graph of an
\* accepted kernel with a memory-carried dependency between a store S and a
\* load L has, at each operand position i where an instruction I consumes
\* L, a LoopCarried edge from the node of S and an Init edge from the node
\* of L, in place of a Normal edge from the node of L.  The kernel records
\* only the number of its dependencies, so the property is stated for
\* whichever store and load of the kernel the dependency is between.
C21_MemoryDependencyEdges ==
    ildep = "BackwardInst" =>
        \A k \in 1..Len(graphs) :
            LET body == func[graphs[k].loop].body
                DA == Decouple(body)
                g == graphs[k].g
            IN func[graphs[k].loop].ndep > 0 =>
                \A S \in DA.stores, L \in DA.loads, I \in DA.comp \cup DA.stores :
                    \A i \in 1..Len(InstOf(body, I).ops) :
                        (InstOf(body, I).ops[i] = L /\ {S, L, I} \subseteq NodeVals(g)) =>
                            /\ EdgeOfKind(g, "LoopCarried", S, I, i - 1)
                            /\ EdgeOfKind(g, "Init", L, I, i - 1)
                            /\ ~EdgeOfKind(g, "Normal", L, I, i - 1)


\* C22: with plain node names, after the renumbering the IDs of the n
\* non-root nodes of the exported graph are pairwise distinct and are
\* exactly 0..n-1
C22_SequentialIDs ==
    rn.phase = "plain" =>
        LET N == { m \in Range(G.nodes) : m.val # getRoot.val }
        IN /\ \A a, b \in N : a.ID = b.ID => a = b
           /\ { m.ID : m \in N } = 0..(Cardinality(N) - 1)

\* C23: the extra-info .json file of an exported graph is written if and
\* only if a node of the graph carries extra_info, and its entries are then
\* the nodes that carry extra_info
C23_ExtraInfoFile ==
    rn.phase # "idle" =>
        LET json == { f \in Range(rn.written) : f.ext = "json" }
        IN /\ (json # {}) <=> hasExtraInfo(G, rn.extra)
           /\ \A f \in json : f.keys = saveExtraInfo(G, rn.extra)


\* the number of '=' in an option argument
RECURSIVE CountEq(_)
CountEq(s) == IF s = <<>> THEN 0 ELSE (IF Head(s) = "=" THEN 1 ELSE 0) + CountEq(Tail(s))

\* C24: a key=value argument is accepted if and only if it contains exactly
\* one '=', and an accepted argument is split at that '=' into key and value,
\* either of which may be empty
C24_ExactlyOneEquals ==
    opt.phase = "parsed" =>
        /\ opt.error <=> CountEq(opt.Arg) # 1
        /\ ~opt.error => opt.key \o <<"=">> \o opt.value = opt.Arg


\* C25: loading a model whose category is a string other than "decoupled"
\* and "time-multiplexed" ends in an InvalidValue error that names the key
\* category, the given value and exactly the two permitted values, with no
\* other key examined, no kernel verified and no graph exported
C25_InvalidCategory ==
    (/\ ml.phase \notin {"idle", "start"}
     /\ ml.cfg.category.t = "string"
     /\ ml.cfg.category.s \notin {"decoupled", "time-multiplexed"}) =>
        /\ ml.phase = "exit"
        /\ ml.examined = <<"category">>
        /\ ~ml.verified /\ ~ml.exported
        /\ Len(ml.log) = 1
        /\ ml.log[1].errtype = "InvalidValue"
        /\ ml.log[1].error_key = "category"
        /\ ml.log[1].error_val = ml.cfg.category.s
        /\ Range(ml.log[1].valid_values) = {"decoupled", "time-multiplexed"}


\* C26: for an access at base + x*Ny*Nz + y*Nz + z in a three-level nest the
\* recorded configuration has three dimensions, innermost loop first:
\* (0, 1, Nz), (0, Nz, Ny), (0, Ny*Nz, Nx), for the two loads and the store
C26_InnermostFirst ==
    (ag_state = "verified" /\ Len(ag_kernel) = 3) =>
        \A i \in 1..3 :
            LET z == ag_kernel[i]
                y == z.ops[1]
                x == y.ops[1]
            IN getConfigAsJson(ag_result, NameOf(i)).offset =
                   << [start |-> 0, step |-> 1, count |-> z.n],
                      [start |-> 0, step |-> z.n, count |-> y.n],
                      [start |-> 0, step |-> y.n * z.n, count |-> x.n] >>


\* instruction v of the body computes from value w, directly or through
\* other instructions of the body
RECURSIVE ComputesFrom(_, _, _)
ComputesFrom(body, v, w) ==
    \E j \in 1..Len(body) :
        /\ body[j].name = v
        /\ \E i \in 1..Len(body[j].ops) :
              body[j].ops[i] = w \/ ComputesFrom(body, body[j].ops[i], w)

\* C27: in a graph built on the time-multiplexed path, for every dependency
\* (phi, def, init) of an induction variable or a register-carried value,
\* def computing from phi directly or not, the node of def has a LoopCarried
\* edge onto itself and every other instruction that uses phi has its edge
\* for that operand from the node of def
C27_PhiReplacedByDef ==
    tm.phase = "added" =>
        \A d \in Range(tm.idv_deps) \cup Range(tm.lc_deps) :
            ComputesFrom(tm.body, d.def, d.phi) =>
                /\ \E e \in TMEdges("LoopCarried") : e.src = d.def /\ e.dst = d.def
                /\ \A j \in 1..Len(tm.body) : \A i \in 1..Len(tm.body[j].ops) :
                      (tm.body[j].name # d.def /\ tm.body[j].ops[i] = d.phi) =>
                          \E e \in Range(tm.b.g.edges) :
                              e.src = d.def /\ e.dst = tm.body[j].name /\ e.operand = i - 1


\* the incoming values of the phi under analysis from inside, or from
\* outside, of the loop
IncomingFrom(in_loop) == { i \in 1..Len(ph.incoming) : ph.incoming[i].in_loop = in_loop }

\* C28: a phi that is not an induction variable is recorded as a Simple
\* dependency of distance 1 if and only if it has exactly one incoming
\* value from outside of the loop and exactly one from inside, in any order
C28_SimpleDependencyIff ==
    (ph.phase = "visited" /\ ~ph.indvar) =>
        /\ (ph.deps # <<>>) <=>
              (Cardinality(IncomingFrom(FALSE)) = 1 /\ Cardinality(IncomingFrom(TRUE)) = 1)
        /\ \A k \in 1..Len(ph.deps) : ph.deps[k].kind = "Simple" /\ ph.deps[k].distance = 1


\* no instruction has been pushed on the queue twice, and no store has had
\* its users looked at
FloodPushesOnce ==
    /\ \A a, b \in 1..Len(fl.pushed) : fl.pushed[a] = fl.pushed[b] => a = b
    /\ \A v \in fl.expanded : fl.body[IndexOf(v)].kind # "store"

\* C29: the search of the decoupling ends on every loop body, cycles of
\* uses through phi nodes included; no instruction is enqueued twice and no
\* store is expanded
C29_FloodTerminates ==
    /\ [](fl.phase # "idle" => FloodPushesOnce)
    /\ <>(fl.phase \in {"done", "error"})

\* the search has ended after going round a cycle of uses through a phi and
\* reaching a store
C29_PhiCycleSearched ==
    /\ fl.phase = "done"
    /\ \E v \in fl.traversed :
          /\ fl.body[IndexOf(v)].kind = "phi"
          /\ \E w \in fl.traversed : w \in fl.body[IndexOf(v)].ops /\ v \in fl.body[IndexOf(w)].ops
    /\ \E v \in fl.traversed : fl.body[IndexOf(v)].kind = "store"


\* C30: the nodes of two different IR values never compare equal, and
\* addNode returns the node of the value it was given, never the node of
\* another value
C30_DistinctValuesDistinctNodes ==
    nid.phase = "added" =>
        /\ nid.ret = nid.last
        /\ \A v, w \in NodeValues :
              v # w => ~isEqualTo(DFGNodeOfValue("Compute", v, nid.addr[v]),
                                  DFGNodeOfValue("Compute", w, nid.addr[w]))

====